---------------------------- MODULE Spec2Model ----------------------------
(***************************************************************************)
(* A model of the custom-fields compatibility and query subsystem of       *)
(* claude-task-master: subtaskValidator.js, customFieldsValidator.js,      *)
(* backwardCompatibility.js and queryTranslator.js.                        *)
(*                                                                         *)
(* The functions are pure JavaScript transforms, so the model has two      *)
(* layers: a small encoding of JavaScript values and of the language       *)
(* operations the code uses (property read, spread, truthiness, the        *)
(* String methods), and on top of it one operator per function of the      *)
(* source, translated statement by statement.  The state machines call     *)
(* the functions on inputs drawn from bounded sets.                        *)
(***************************************************************************)
EXTENDS Integers, Sequences, FiniteSets, TLC

VARIABLES
    tasks,      \* the task array handed to the first call
    params,     \* the query parameters (an object), Undefined in SpecCompat
    arg,        \* the argument of the last call
    out,        \* what the last call returned, or Throw
    ops         \* the names of the calls made so far, oldest first

vars == <<tasks, params, arg, out, ops>>

-----------------------------------------------------------------------------
(* Bounds of the model.                                                    *)

MaxTasks == 2       \* tasks in an input array
MaxSubtasks == 2    \* subtasks in an input array, over all its tasks
MaxCalls == 2       \* calls chained on one input
MaxParams == 2      \* parameters of a query
MaxNameLen == 3     \* characters of a generated field name
MaxFields == 2      \* available fields of a suggestion

-----------------------------------------------------------------------------
(* JavaScript values.  A string is a sequence of one-character strings; an *)
(* object is the sequence of its own enumerable properties, <<key, value>> *)
(* pairs in insertion order; Throw is the outcome of a call that raised a  *)
(* TypeError.                                                              *)

Undefined == [t |-> "undefined"]
Null == [t |-> "null"]
Throw == [t |-> "throw"]
Num(n) == [t |-> "num", v |-> n]
Str(s) == [t |-> "str", v |-> s]
Arr(a) == [t |-> "arr", v |-> a]
Obj(es) == [t |-> "obj", v |-> es]

EmptyObj == Obj(<<>>)
EmptyArr == Arr(<<>>)

\* Property names the source reads or writes.
K_id == <<"i", "d">>
K_title == <<"t", "i", "t", "l", "e">>
K_description == <<"d", "e", "s", "c", "r", "i", "p", "t", "i", "o", "n">>
K_details == <<"d", "e", "t", "a", "i", "l", "s">>
K_testStrategy == <<"t", "e", "s", "t", "S", "t", "r", "a", "t", "e", "g", "y">>
K_status == <<"s", "t", "a", "t", "u", "s">>
K_priority == <<"p", "r", "i", "o", "r", "i", "t", "y">>
K_dependencies == <<"d", "e", "p", "e", "n", "d", "e", "n", "c", "i", "e", "s">>
K_subtasks == <<"s", "u", "b", "t", "a", "s", "k", "s">>
K_customFields == <<"c", "u", "s", "t", "o", "m", "F", "i", "e", "l", "d", "s">>
K_file == <<"f", "i", "l", "e">>
K_projectRoot == <<"p", "r", "o", "j", "e", "c", "t", "R", "o", "o", "t">>
K_tag == <<"t", "a", "g">>
K_withSubtasks == <<"w", "i", "t", "h", "S", "u", "b", "t", "a", "s", "k", "s">>
K_complexityReport == <<"c", "o", "m", "p", "l", "e", "x", "i", "t", "y", "R", "e", "p", "o", "r", "t">>
K_parentTaskId == <<"p", "a", "r", "e", "n", "t", "T", "a", "s", "k", "I", "d">>
K_tasks == <<"t", "a", "s", "k", "s">>
K_metadata == <<"m", "e", "t", "a", "d", "a", "t", "a">>
K_master == <<"m", "a", "s", "t", "e", "r">>
K_created == <<"c", "r", "e", "a", "t", "e", "d">>
K_updated == <<"u", "p", "d", "a", "t", "e", "d">>
K_coreFields == <<"c", "o", "r", "e", "F", "i", "e", "l", "d", "s">>
K_proto == <<"_", "_", "p", "r", "o", "t", "o", "_", "_">>

\* The decimal digits, for the index keys of a spread string or array.
Digits == <<"0", "1", "2", "3", "4", "5", "6", "7", "8", "9">>

\* String(n) for 0 <= n: the decimal digits of n.
RECURSIVE NumToString(_)
NumToString(n) ==
    IF n < 10 THEN <<Digits[n + 1]>>
    ELSE NumToString(n \div 10) \o <<Digits[(n % 10) + 1]>>

\* ToBoolean(v).
Truthy(v) ==
    CASE v.t = "undefined" -> FALSE
      [] v.t = "null" -> FALSE
      [] v.t = "num" -> v.v # 0
      [] v.t = "str" -> v.v # <<>>
      [] v.t = "bool" -> v.v
      [] OTHER -> TRUE

\* Array.isArray(v).
IsArray(v) == v.t = "arr"

\* a === b.  Primitives compare by value; two objects or arrays are === only
\* when they are one reference, and values read from JSON never are.
StrictEq(a, b) ==
    /\ a.t = b.t
    /\ a.t \in {"num", "str"} => a.v = b.v
    /\ a.t \notin {"obj", "arr"}

\* The position of own property k among the entries es, 0 when absent.
IndexOfKey(es, k) ==
    IF \E i \in DOMAIN es : es[i][1] = k
    THEN CHOOSE i \in DOMAIN es : es[i][1] = k
    ELSE 0

\* Object.prototype.hasOwnProperty.call(o, k) for an object o.
HasOwn(o, k) == o.t = "obj" /\ IndexOfKey(o.v, k) # 0

\* The own keys of an object, in insertion order (Object.keys).
Keys(o) == [i \in DOMAIN o.v |-> o.v[i][1]]

\* v[k] for a value that is neither null nor undefined (reading a property
\* of null or undefined raises a TypeError: see the callers).  An object
\* yields its own property, undefined when it has none; a string yields
\* its length or undefined for the names the code reads.
GetProp(v, k) ==
    CASE v.t = "obj" ->
            IF IndexOfKey(v.v, k) # 0 THEN v.v[IndexOfKey(v.v, k)][2] ELSE Undefined
      [] v.t \in {"str", "arr"} ->
            IF k = <<"l", "e", "n", "g", "t", "h">> THEN Num(Len(v.v)) ELSE Undefined
      [] OTHER -> Undefined

\* Whether reading a property of v raises a TypeError.
IsNullish(v) == v.t \in {"null", "undefined"}

\* The entries es with own property k defined as val: an existing key keeps
\* its position, a new key is appended ({...o, k: val}).
DefineOwn(es, k, val) ==
    IF IndexOfKey(es, k) # 0
    THEN [es EXCEPT ![IndexOfKey(es, k)] = <<k, val>>]
    ELSE Append(es, <<k, val>>)

\* The own enumerable properties { ...v } copies: those of an object, the
\* index properties of a string or an array, none for null, undefined or a
\* number.
Spread(v) ==
    CASE v.t = "obj" -> v.v
      [] v.t = "str" -> [i \in DOMAIN v.v |-> <<NumToString(i - 1), Str(<<v.v[i]>>)>>]
      [] v.t = "arr" -> [i \in DOMAIN v.v |-> <<NumToString(i - 1), v.v[i]>>]
      [] OTHER -> <<>>

\* The value of a.map(F), r being the results of the callbacks in order: Throw
\* as soon as one callback throws.
MapArr(r) ==
    IF \E i \in DOMAIN r : r[i] = Throw THEN Throw ELSE Arr(r)

-----------------------------------------------------------------------------
(* subtaskValidator.js                                                     *)

\* NeedsParentId without the comparison with the task's id.
NeedsParentId_OnlyMissing(subtask, task) ==
    ~Truthy(GetProp(subtask, K_parentTaskId))

\* The test of line 36: the subtask's parentTaskId is missing or is not the
\* id of the task that holds it.
NeedsParentId(subtask, task) ==
    \/ ~Truthy(GetProp(subtask, K_parentTaskId))
    \/ ~StrictEq(GetProp(subtask, K_parentTaskId), GetProp(task, K_id))

\* The callback of task.subtasks.map (lines 34-52).  Reading parentTaskId
\* of a null entry raises a TypeError.
ValidatedSubtask(subtask, task) ==
    IF IsNullish(subtask) THEN Throw
    ELSE IF NeedsParentId(subtask, task)
    THEN Obj(DefineOwn(Spread(subtask), K_parentTaskId, GetProp(task, K_id)))
    ELSE subtask

\* ValidatedTask collecting the validated subtasks in reverse order.
ValidatedTask_Reversed(task) ==
    IF IsNullish(task) THEN Throw
    ELSE LET subtasks == GetProp(task, K_subtasks)
         IN  IF ~Truthy(subtasks) \/ ~IsArray(subtasks) \/ Len(subtasks.v) = 0
             THEN task
             ELSE LET validatedSubtasks ==
                          MapArr([i \in DOMAIN subtasks.v |-> ValidatedSubtask(subtasks.v[i], task)])
                      n == Len(subtasks.v)
                  IN  IF validatedSubtasks = Throw THEN Throw
                      ELSE Obj(DefineOwn(Spread(task), K_subtasks,
                               Arr([j \in 1..n |-> validatedSubtasks.v[n + 1 - j]])))

\* The callback of tasks.map (lines 29-58).
ValidatedTask(task) ==
    IF IsNullish(task) THEN Throw
    ELSE LET subtasks == GetProp(task, K_subtasks)
         IN  IF ~Truthy(subtasks) \/ ~IsArray(subtasks) \/ Len(subtasks.v) = 0
             THEN task
             ELSE LET validatedSubtasks ==
                          MapArr([i \in DOMAIN subtasks.v |-> ValidatedSubtask(subtasks.v[i], task)])
                  IN  IF validatedSubtasks = Throw THEN Throw
                      ELSE Obj(DefineOwn(Spread(task), K_subtasks, validatedSubtasks))

ensureSubtaskParentIds(ts) ==
    IF ~IsArray(ts) THEN ts ELSE MapArr([i \in DOMAIN ts.v |-> ValidatedTask(ts.v[i])])

-----------------------------------------------------------------------------
(* customFieldsValidator.js                                                *)

\* ensureCustomFields overwriting the customFields the item has.
ensureCustomFields_AlwaysEmpty(item) ==
    IF IsNullish(item) THEN Throw
    ELSE Obj(DefineOwn(Spread(item), K_customFields, EmptyObj))

\* { ...item, customFields: item.customFields || {} }.  Reading
\* customFields of a null item raises a TypeError.
ensureCustomFields(item) ==
    IF IsNullish(item) THEN Throw
    ELSE LET customFields == GetProp(item, K_customFields)
         IN  Obj(DefineOwn(Spread(item), K_customFields,
                           IF Truthy(customFields) THEN customFields ELSE EmptyObj))

\* EnsuredSubtasks mapping the entries from the second one on.
EnsuredSubtasks_SkipFirst(task) ==
    LET subtasks == GetProp(task, K_subtasks)
    IN  IF Truthy(subtasks)
        THEN IF IsArray(subtasks)
             THEN IF subtasks.v = <<>> THEN subtasks
                  ELSE MapArr([i \in DOMAIN Tail(subtasks.v) |-> ensureCustomFields(Tail(subtasks.v)[i])])
             ELSE Throw
        ELSE EmptyArr

\* EnsuredSubtasks without the default: a falsy subtasks is passed through.
EnsuredSubtasks_NoDefault(task) ==
    LET subtasks == GetProp(task, K_subtasks)
    IN  IF Truthy(subtasks)
        THEN IF IsArray(subtasks) THEN MapArr([i \in DOMAIN subtasks.v |-> ensureCustomFields(subtasks.v[i])]) ELSE Throw
        ELSE subtasks

\* The subtasks property of line 616:
\* task.subtasks ? task.subtasks.map(ensureCustomFields) : (task.subtasks || []).
\* A truthy value that is no array has no map method: a TypeError.
EnsuredSubtasks(task) ==
    LET subtasks == GetProp(task, K_subtasks)
    IN  IF Truthy(subtasks)
        THEN IF IsArray(subtasks) THEN MapArr([i \in DOMAIN subtasks.v |-> ensureCustomFields(subtasks.v[i])]) ELSE Throw
        ELSE IF Truthy(subtasks) THEN subtasks ELSE EmptyArr

\* The callback of tasks.map (lines 614-617).
EnsuredTask(task) ==
    IF ensureCustomFields(task) = Throw \/ EnsuredSubtasks(task) = Throw THEN Throw
    ELSE Obj(DefineOwn(ensureCustomFields(task).v, K_subtasks, EnsuredSubtasks(task)))

ensureCustomFieldsOnTasks(ts) ==
    IF ~IsArray(ts) THEN Throw ELSE MapArr([i \in DOMAIN ts.v |-> EnsuredTask(ts.v[i])])

-----------------------------------------------------------------------------
(* backwardCompatibility.js                                                *)

ensureTasksBackwardCompatibility(ts) == ensureCustomFieldsOnTasks(ts)

\* The metadata a migration invents when the legacy data has none (lines
\* 63-67); created and updated are two readings of the clock.
DefaultMetadata(created, updated) ==
    Obj(<< <<K_created, Str(created)>>,
           <<K_updated, Str(updated)>>,
           <<K_description, Str(<<"T", "a", "s", "k", "s", " ", "f", "o", "r", " ", "m", "a", "s", "t", "e", "r", " ", "c", "o", "n", "t", "e", "x", "t">>)>> >>)

migrateLegacyFormatWithCustomFields(legacyData, created, updated) ==
    IF IsNullish(legacyData) THEN Throw
    ELSE LET tasksWithCustomFields ==
                 ensureTasksBackwardCompatibility(GetProp(legacyData, K_tasks))
             metadata == GetProp(legacyData, K_metadata)
         IN  IF tasksWithCustomFields = Throw THEN Throw
             ELSE Obj(<< <<K_master,
                           Obj(<< <<K_tasks, tasksWithCustomFields>>,
                                  <<K_metadata,
                                    IF Truthy(metadata) THEN metadata
                                    ELSE DefaultMetadata(created, updated)>> >>)>> >>)

-----------------------------------------------------------------------------
(* The inputs of the compatibility functions.                              *)

TitleT == Str(<<"T">>)
TitleS == Str(<<"S">>)
Epic1 == Str(<<"E", "1">>)
K_epic == <<"e", "p", "i", "c">>

\* Subtask entries as they are found in stored data: a legacy subtask with
\* neither parentTaskId nor customFields, one with a wrong parentTaskId and
\* a null customFields, one that names task 1 and has a custom field, and
\* the malformed entries null and a string.
SubtaskPool ==
    { Obj(<< <<K_id, Num(1)>>, <<K_title, TitleS>> >>),
      Obj(<< <<K_id, Num(2)>>, <<K_title, TitleS>>, <<K_parentTaskId, Num(999)>>,
             <<K_customFields, Null>> >>),
      Obj(<< <<K_id, Num(3)>>, <<K_parentTaskId, Num(1)>>,
             <<K_customFields, Obj(<< <<K_epic, Epic1>> >>)>> >>),
      Null,
      Str(<<"s">>) }

\* A task without its subtasks property.
TaskBases ==
    { <<  <<K_id, Num(1)>>, <<K_title, TitleT>> >>,
      <<  <<K_id, Num(5)>>, <<K_title, TitleT>>,
          <<K_customFields, Obj(<< <<K_epic, Epic1>> >>)>> >> }

\* What a stored task has as its subtasks property.
SubtasksProps == {"missing", "null", "array"}

\* f[1] + ... + f[i].
RECURSIVE SumTo(_, _)
SumTo(f, i) == IF i = 0 THEN 0 ELSE f[i] + SumTo(f, i - 1)

InputTask(base, prop, entries) ==
    CASE prop = "missing" -> Obj(base)
      [] prop = "null" -> Obj(Append(base, <<K_subtasks, Null>>))
      [] OTHER -> Obj(Append(base, <<K_subtasks, Arr(entries)>>))

\* The array of n tasks in which task i has base[i], the subtasks property
\* prop[i] and, when that is an array, the next count[i] of the entries.
InputTasks(n, base, prop, count, entries) ==
    Arr([i \in 1..n |->
            InputTask(base[i], prop[i],
                      [j \in 1..count[i] |-> entries[SumTo(count, i - 1) + j]])])

\* ts is an array of at most MaxTasks tasks holding at most MaxSubtasks
\* subtask entries between them.
IsInputTasks(ts) ==
    \E n \in 0..MaxTasks :
        \E base \in [1..n -> TaskBases], prop \in [1..n -> SubtasksProps],
           count \in [1..n -> 0..MaxSubtasks] :
            /\ \A i \in 1..n : prop[i] # "array" => count[i] = 0
            /\ SumTo(count, n) <= MaxSubtasks
            /\ \E entries \in [1..SumTo(count, n) -> SubtaskPool] :
                   ts = InputTasks(n, base, prop, count, entries)

\* The readings of the clock, as ISO strings, in increasing order.
IsoTimes == << <<"t", "0">>, <<"t", "1">> >>

-----------------------------------------------------------------------------
(* The state machine of the compatibility functions: a read of stored data *)
(* followed by calls chained on what the previous call returned.           *)

\* The value the next call is made on.
Current == IF ops = <<>> THEN tasks ELSE out

CanCall == Len(ops) < MaxCalls /\ Current # Throw /\ IsArray(Current)

Call(name, argument, result) ==
    /\ arg' = argument
    /\ out' = result
    /\ ops' = Append(ops, name)
    /\ UNCHANGED <<tasks, params>>

InitCompat ==
    /\ IsInputTasks(tasks)
    /\ params = Undefined
    /\ arg = Undefined
    /\ out = Undefined
    /\ ops = <<>>

EnsureSubtaskParentIds ==
    /\ CanCall
    /\ Call("ensureSubtaskParentIds", Current, ensureSubtaskParentIds(Current))

EnsureTasksBackwardCompatibility ==
    /\ CanCall
    /\ Call("ensureTasksBackwardCompatibility", Current,
            ensureTasksBackwardCompatibility(Current))

\* The legacy data is { tasks } or { tasks, metadata }, as read from the
\* file: the migration is the first pass over it.
MigrateLegacyFormatWithCustomFields ==
    /\ CanCall
    /\ ops = <<>>
    /\ \E withMetadata \in BOOLEAN, c \in {1}, u \in DOMAIN IsoTimes :
          /\ c <= u
          /\ withMetadata => u = c
          /\ LET legacyData ==
                     Obj(IF withMetadata
                         THEN << <<K_tasks, Current>>,
                                 <<K_metadata, Obj(<< <<K_created, Str(IsoTimes[1])>> >>)>> >>
                         ELSE << <<K_tasks, Current>> >>)
             IN  Call("migrateLegacyFormatWithCustomFields", legacyData,
                      migrateLegacyFormatWithCustomFields(legacyData, IsoTimes[c], IsoTimes[u]))

NextCompat ==
    \/ EnsureSubtaskParentIds
    \/ EnsureTasksBackwardCompatibility
    \/ MigrateLegacyFormatWithCustomFields

SpecCompat == InitCompat /\ [][NextCompat]_vars

-----------------------------------------------------------------------------
(* The String and Array methods queryTranslator.js calls.                  *)

UpperCase == <<"A", "B", "C", "D", "E", "F", "G", "H", "I", "J", "K", "L", "M",
               "N", "O", "P", "Q", "R", "S", "T", "U", "V", "W", "X", "Y", "Z">>
LowerCase == <<"a", "b", "c", "d", "e", "f", "g", "h", "i", "j", "k", "l", "m",
               "n", "o", "p", "q", "r", "s", "t", "u", "v", "w", "x", "y", "z">>

\* s.toLowerCase() for a string of ASCII characters.
ToLowerCase(s) ==
    [i \in DOMAIN s |->
        IF \E j \in DOMAIN UpperCase : UpperCase[j] = s[i]
        THEN LowerCase[CHOOSE j \in DOMAIN UpperCase : UpperCase[j] = s[i]]
        ELSE s[i]]

\* The white space s.trim() removes.
WhiteSpace == {" ", "\t", "\n", "\r"}

RECURSIVE TrimStart(_)
TrimStart(s) ==
    IF s # <<>> /\ Head(s) \in WhiteSpace THEN TrimStart(Tail(s)) ELSE s

RECURSIVE TrimEnd(_)
TrimEnd(s) ==
    IF s # <<>> /\ s[Len(s)] \in WhiteSpace THEN TrimEnd(SubSeq(s, 1, Len(s) - 1)) ELSE s

\* s.trim().
Trim(s) == TrimEnd(TrimStart(s))

\* s.split(c) for a one-character separator c: the pieces between the
\* occurrences of c, one more piece than there are occurrences.
RECURSIVE Split(_, _)
Split(s, c) ==
    IF \A i \in DOMAIN s : s[i] # c THEN <<s>>
    ELSE LET i == CHOOSE k \in DOMAIN s : s[k] = c /\ \A j \in 1..(k - 1) : s[j] # c
         IN  <<SubSeq(s, 1, i - 1)>> \o Split(SubSeq(s, i + 1, Len(s)), c)

\* s.includes(sub) for strings: sub occurs in s (the empty string always).
StrIncludes(s, sub) ==
    \E i \in 0..(Len(s) - Len(sub)) : SubSeq(s, i + 1, i + Len(sub)) = sub

\* a.includes(x) for an array of strings.
Includes(a, x) == \E i \in DOMAIN a : a[i] = x

\* String(v), which is v.toString() where v has one: the digits of a number,
\* the elements of an array joined by commas, "[object Object]" for an object.
RECURSIVE toString(_)
RECURSIVE Join(_)
toString(v) ==
    CASE v.t = "str" -> v.v
      [] v.t = "num" -> NumToString(v.v)
      [] v.t = "null" -> <<"n", "u", "l", "l">>
      [] v.t = "undefined" -> <<"u", "n", "d", "e", "f", "i", "n", "e", "d">>
      [] v.t = "arr" -> Join(v.v)
      [] v.t = "bool" -> IF v.v THEN <<"t", "r", "u", "e">> ELSE <<"f", "a", "l", "s", "e">>
      [] OTHER -> <<"[", "o", "b", "j", "e", "c", "t", " ", "O", "b", "j", "e", "c", "t", "]">>

\* a.join(','): null and undefined elements give the empty string.
Join(a) ==
    IF a = <<>> THEN <<>>
    ELSE LET first == IF IsNullish(a[1]) THEN <<>> ELSE toString(a[1])
         IN  IF Len(a) = 1 THEN first ELSE first \o <<",">> \o Join(Tail(a))

\* o[k] = val for an object o made by an object literal.  The key '__proto__'
\* names the accessor of Object.prototype: the assignment runs its setter
\* (which at most changes the prototype of o) and creates no own property.
AssignProp(es, k, val) ==
    IF k = K_proto THEN es ELSE DefineOwn(es, k, val)

-----------------------------------------------------------------------------
(* queryTranslator.js                                                      *)

CORE_FIELDS ==
    <<K_id, K_title, K_description, K_details, K_testStrategy, K_status,
      K_priority, K_dependencies, K_subtasks, K_customFields, K_file,
      K_projectRoot, K_tag, K_withSubtasks, K_complexityReport>>

\* The forEach of translateQueryParameters over the entries not yet seen.
RECURSIVE TranslateEntries(_, _)
TranslateEntries(translated, entries) ==
    IF entries = <<>> THEN translated
    ELSE LET key == entries[1][1]
             value == entries[1][2]
             coreFields == GetProp(translated, K_coreFields)
             customFields == GetProp(translated, K_customFields)
             assigned ==
                 IF Includes(CORE_FIELDS, key)
                 THEN Obj(<< <<K_coreFields, Obj(AssignProp(coreFields.v, key, value))>>,
                             <<K_customFields, customFields>> >>)
                 ELSE Obj(<< <<K_coreFields, coreFields>>,
                             <<K_customFields, Obj(AssignProp(customFields.v, key, value))>> >>)
         IN  TranslateEntries(assigned, Tail(entries))

\* Object.entries(p) raises a TypeError for null and undefined, and is the
\* own properties of an object in insertion order (no key of the model is
\* an array index).
translateQueryParameters(p) ==
    IF IsNullish(p) THEN Throw
    ELSE TranslateEntries(Obj(<< <<K_coreFields, EmptyObj>>, <<K_customFields, EmptyObj>> >>),
                          Spread(p))

\* Whether the callback of a core field filter raises a TypeError on task:
\* value.includes and value.toLowerCase exist on strings only (on an array
\* includes exists and toLowerCase or split does not), and so does
\* task.status.toLowerCase.
CoreThrows(task, field, value) ==
    /\ field = K_status
    /\ \/ value.t # "str"
       \/ GetProp(task, field).t # "str"

\* What the callback of a core field filter returns for task.
CoreMatches(task, field, value) ==
    IF field = K_status /\ StrIncludes(value.v, <<",">>)
    THEN LET parts == Split(value.v, ",")
             statuses == [i \in DOMAIN parts |-> ToLowerCase(Trim(parts[i]))]
         IN  Includes(statuses, ToLowerCase(GetProp(task, field).v))
    ELSE IF field = K_status
    THEN ToLowerCase(GetProp(task, field).v) = ToLowerCase(value.v)
    ELSE \/ StrictEq(GetProp(task, field), value)
         \/ /\ Truthy(GetProp(task, field))
            /\ StrIncludes(toString(GetProp(task, field)), toString(value))

\* Whether the callback of a custom field filter raises a TypeError on task:
\* value.includes exists on strings only, and task.customFields[field]
\* .includes on strings and arrays only.
CustomThrows(task, field, value) ==
    LET customFields == GetProp(task, K_customFields)
    IN  /\ Truthy(customFields)
        /\ Truthy(GetProp(customFields, field))
        /\ \/ value.t # "str"
           \/ /\ ~StrIncludes(value.v, <<",">>)
              /\ ~StrictEq(GetProp(customFields, field), value)
              /\ GetProp(customFields, field).t \notin {"str", "arr"}

\* CustomMatches comparing the parts of a comma-separated value untrimmed.
CustomMatches_NoTrim(task, field, value) ==
    LET customFields == GetProp(task, K_customFields)
        fieldValue == GetProp(customFields, field)
    IN  /\ Truthy(customFields)
        /\ Truthy(fieldValue)
        /\ IF StrIncludes(value.v, <<",">>)
           THEN LET values == Split(value.v, ",")
                IN  \E i \in DOMAIN values : StrictEq(fieldValue, Str(values[i]))
           ELSE \/ StrictEq(fieldValue, value)
                \/ IF fieldValue.t = "str"
                   THEN StrIncludes(fieldValue.v, value.v)
                   ELSE \E i \in DOMAIN fieldValue.v : StrictEq(fieldValue.v[i], value)

\* CustomMatches taking only null and undefined for an absent value.
CustomMatches_NullishGuard(task, field, value) ==
    LET customFields == GetProp(task, K_customFields)
        fieldValue == IF IsNullish(customFields) THEN Undefined
                      ELSE GetProp(customFields, field)
    IN  /\ ~IsNullish(fieldValue)
        /\ IF StrIncludes(value.v, <<",">>)
           THEN LET parts == Split(value.v, ",")
                    values == [i \in DOMAIN parts |-> Trim(parts[i])]
                IN  \E i \in DOMAIN values : StrictEq(fieldValue, Str(values[i]))
           ELSE \/ StrictEq(fieldValue, value)
                \/ StrIncludes(fieldValue.v, value.v)

\* What the callback of a custom field filter returns for task.
CustomMatches(task, field, value) ==
    LET customFields == GetProp(task, K_customFields)
        fieldValue == GetProp(customFields, field)
    IN  /\ Truthy(customFields)
        /\ Truthy(fieldValue)
        /\ IF StrIncludes(value.v, <<",">>)
           THEN LET parts == Split(value.v, ",")
                    values == [i \in DOMAIN parts |-> Trim(parts[i])]
                IN  \E i \in DOMAIN values : StrictEq(fieldValue, Str(values[i]))
           ELSE \/ StrictEq(fieldValue, value)
                \/ IF fieldValue.t = "str"
                   THEN StrIncludes(fieldValue.v, value.v)
                   ELSE \E i \in DOMAIN fieldValue.v : StrictEq(fieldValue.v[i], value)

\* The forEach over Object.entries(filters.coreFields): results is filtered
\* once per entry, in the order of the entries.
RECURSIVE FilterCoreFields(_, _)
FilterCoreFields(results, entries) ==
    IF results = Throw \/ entries = <<>> THEN results
    ELSE LET field == entries[1][1]
             value == entries[1][2]
         IN  IF \E i \in DOMAIN results.v : CoreThrows(results.v[i], field, value)
             THEN Throw
             ELSE FilterCoreFields(
                      Arr(SelectSeq(results.v, LAMBDA task : CoreMatches(task, field, value))),
                      Tail(entries))

\* FilterCustomFields applying the first entry only.
FilterCustomFields_FirstOnly(results, entries) ==
    IF results = Throw \/ entries = <<>> THEN results
    ELSE LET field == entries[1][1]
             value == entries[1][2]
         IN  IF \E i \in DOMAIN results.v : CustomThrows(results.v[i], field, value)
             THEN Throw
             ELSE Arr(SelectSeq(results.v, LAMBDA task : CustomMatches(task, field, value)))

\* The forEach over Object.entries(filters.customFields).
RECURSIVE FilterCustomFields(_, _)
FilterCustomFields(results, entries) ==
    IF results = Throw \/ entries = <<>> THEN results
    ELSE LET field == entries[1][1]
             value == entries[1][2]
         IN  IF \E i \in DOMAIN results.v : CustomThrows(results.v[i], field, value)
             THEN Throw
             ELSE FilterCustomFields(
                      Arr(SelectSeq(results.v, LAMBDA task : CustomMatches(task, field, value))),
                      Tail(entries))

\* filterTasks returning the tasks it keeps last first.
filterTasks_Reversed(ts, filters) ==
    LET results ==
            FilterCustomFields(
                FilterCoreFields(Arr(ts.v), Spread(GetProp(filters, K_coreFields))),
                Spread(GetProp(filters, K_customFields)))
    IN  IF results = Throw THEN Throw
        ELSE Arr([i \in DOMAIN results.v |-> results.v[Len(results.v) + 1 - i]])

filterTasks(ts, filters) ==
    FilterCustomFields(
        FilterCoreFields(Arr(ts.v), Spread(GetProp(filters, K_coreFields))),
        Spread(GetProp(filters, K_customFields)))

\* scripts/modules/utils/queryTranslator.js holds a second filterTasks, with
\* the same custom field filters and another core filter callback:
\* value.includes exists on strings only.
ScriptsCoreThrows(task, field, value) ==
    field = K_status /\ value.t # "str"

\* What the core filter callback of the second filterTasks returns for task.
ScriptsCoreMatches(task, field, value) ==
    IF field = K_status /\ StrIncludes(value.v, <<",">>)
    THEN LET parts == Split(value.v, ",")
             statuses == [i \in DOMAIN parts |-> Str(Trim(parts[i]))]
         IN  \E i \in DOMAIN statuses : StrictEq(statuses[i], GetProp(task, field))
    ELSE \/ StrictEq(GetProp(task, field), value)
         \/ /\ Truthy(GetProp(task, field))
            /\ StrIncludes(toString(GetProp(task, field)), toString(value))

RECURSIVE ScriptsFilterCoreFields(_, _)
ScriptsFilterCoreFields(results, entries) ==
    IF results = Throw \/ entries = <<>> THEN results
    ELSE LET field == entries[1][1]
             value == entries[1][2]
         IN  IF \E i \in DOMAIN results.v : ScriptsCoreThrows(results.v[i], field, value)
             THEN Throw
             ELSE ScriptsFilterCoreFields(
                      Arr(SelectSeq(results.v,
                                    LAMBDA task : ScriptsCoreMatches(task, field, value))),
                      Tail(entries))

ScriptsFilterTasks(ts, filters) ==
    FilterCustomFields(
        ScriptsFilterCoreFields(Arr(ts.v), Spread(GetProp(filters, K_coreFields))),
        Spread(GetProp(filters, K_customFields)))

queryTasks(ts, p) ==
    LET filters == translateQueryParameters(p)
    IN  IF filters = Throw THEN Throw ELSE filterTasks(ts, filters)

-----------------------------------------------------------------------------
(* The inputs of a query: tasks with a status, whose custom fields are     *)
(* strings or are left empty, null, undefined or out, and the parameters   *)
(* of a list command or of an MCP request.                                 *)

K_component == <<"c", "o", "m", "p", "o", "n", "e", "n", "t">>
K_Status == <<"S", "t", "a", "t", "u", "s">>

Pending == Str(<<"p", "e", "n", "d", "i", "n", "g">>)
Done == Str(<<"d", "o", "n", "e">>)
High == Str(<<"h", "i", "g", "h">>)
Low == Str(<<"l", "o", "w">>)
Auth == Str(<<"a", "u", "t", "h">>)
Epic12 == Str(<<"E", "1", "2">>)
Epic5 == Str(<<"E", "5">>)

QueryTaskPool ==
    << Obj(<< <<K_id, Num(1)>>, <<K_title, TitleT>>, <<K_status, Pending>>,
              <<K_priority, High>>,
              <<K_customFields, Obj(<< <<K_epic, Epic1>>, <<K_component, Auth>> >>)>> >>),
       Obj(<< <<K_id, Num(2)>>, <<K_title, TitleT>>, <<K_status, Done>>,
              <<K_priority, Low>>,
              <<K_customFields, Obj(<< <<K_epic, Epic12>>, <<K_component, Undefined>> >>)>> >>),
       Obj(<< <<K_id, Num(3)>>, <<K_title, TitleT>>, <<K_status, Done>>,
              <<K_priority, High>>, <<K_dependencies, Arr(<<Num(1), Num(2)>>)>>,
              <<K_customFields, Obj(<< <<K_epic, Epic5>>, <<K_component, Auth>> >>)>> >>),
       Obj(<< <<K_id, Num(4)>>, <<K_title, TitleT>>, <<K_status, Pending>>,
              <<K_customFields, Obj(<< <<K_epic, Str(<<>>)>>, <<K_component, Null>> >>)>> >>),
       Obj(<< <<K_id, Num(11)>>, <<K_title, TitleT>>, <<K_status, Done>> >>) >>

\* The task arrays of a query: tasks of the pool with distinct ids, in any
\* order.
IsQueryTasks(ts) ==
    \E n \in 0..MaxTasks :
        \E pick \in [1..n -> DOMAIN QueryTaskPool] :
            /\ \A i, j \in 1..n : i # j => pick[i] # pick[j]
            /\ ts = Arr([i \in 1..n |-> QueryTaskPool[pick[i]]])

\* The parameters a query is made of: core and custom names, a name that
\* differs from a core name by case, comma-separated values, and the values
\* a caller may leave empty, null or undefined.
QueryParamPool ==
    << <<K_status, Str(<<"D", "o", "n", "e">>)>>,
       <<K_status, Str(<<"p", "e", "n", "d">>)>>,
       <<K_status, Str(<<"P", "e", "n", "d", "i", "n", "g", ",", " ", "d", "o", "n", "e">>)>>,
       <<K_priority, High>>,
       <<K_id, Str(<<"1">>)>>,
       <<K_tag, Undefined>>,
       <<K_epic, Epic1>>,
       <<K_epic, Str(<<"E", "1", ",", " ", "E", "5">>)>>,
       <<K_epic, Str(<<>>)>>,
       <<K_epic, Null>>,
       <<K_component, Auth>>,
       <<K_Status, Done>>,
       <<K_proto, Str(<<"x">>)>> >>

\* The parameter objects of a query: entries of the pool under distinct
\* keys, in any order.
IsQueryParams(p) ==
    \E n \in 0..MaxParams :
        \E pick \in [1..n -> DOMAIN QueryParamPool] :
            /\ \A i, j \in 1..n : i # j => QueryParamPool[pick[i]][1] # QueryParamPool[pick[j]][1]
            /\ p = Obj([i \in 1..n |-> QueryParamPool[pick[i]]])

-----------------------------------------------------------------------------
(* The state machine of a query: the parameters are translated and the     *)
(* tasks filtered, in two calls or by queryTasks in one.                   *)

InitQuery ==
    /\ IsQueryTasks(tasks)
    /\ IsQueryParams(params)
    /\ arg = Undefined
    /\ out = Undefined
    /\ ops = <<>>

TranslateQueryParameters ==
    /\ ops = <<>>
    /\ Call("translateQueryParameters", params, translateQueryParameters(params))

FilterTasks ==
    /\ ops = <<"translateQueryParameters">>
    /\ out # Throw
    /\ Call("filterTasks", out, filterTasks(tasks, out))

\* The second filterTasks, on the same translated parameters.
FilterTasksScripts ==
    /\ ops = <<"translateQueryParameters">>
    /\ out # Throw
    /\ Call("scripts/filterTasks", out, ScriptsFilterTasks(tasks, out))

QueryTasks ==
    /\ ops = <<>>
    /\ Call("queryTasks", params, queryTasks(tasks, params))

NextQuery ==
    \/ TranslateQueryParameters
    \/ FilterTasks
    \/ FilterTasksScripts
    \/ QueryTasks

SpecQuery == InitQuery /\ [][NextQuery]_vars

-----------------------------------------------------------------------------
(* queryTranslator.js: the validation of a custom field name.              *)

True == [t |-> "bool", v |-> TRUE]
False == [t |-> "bool", v |-> FALSE]

K_valid == <<"v", "a", "l", "i", "d">>
K_reason == <<"r", "e", "a", "s", "o", "n">>
K_suggestion == <<"s", "u", "g", "g", "e", "s", "t", "i", "o", "n">>

\* RESERVED_FIELD_NAMES without its last name.
RESERVED_FIELD_NAMES_Short ==
    <<K_id, K_title, K_description, K_details, K_testStrategy, K_status,
      K_priority, K_dependencies, K_subtasks>>

\* RESERVED_FIELD_NAMES with the name reserved for subtasks as well.
RESERVED_FIELD_NAMES_WithParentTaskId ==
    <<K_id, K_title, K_description, K_details, K_testStrategy, K_status,
      K_priority, K_dependencies, K_subtasks, K_customFields, K_parentTaskId>>

RESERVED_FIELD_NAMES ==
    <<K_id, K_title, K_description, K_details, K_testStrategy, K_status,
      K_priority, K_dependencies, K_subtasks, K_customFields>>

\* /^[a-zA-Z_-][a-zA-Z0-9_-]*$/.test(s) for a string s; without the m flag
\* $ matches at the end of s only.
fieldNameRegex(s) ==
    LET letters == {UpperCase[i] : i \in DOMAIN UpperCase}
                       \cup {LowerCase[i] : i \in DOMAIN LowerCase}
        digits == {Digits[i] : i \in DOMAIN Digits}
    IN  /\ s # <<>>
        /\ s[1] \in letters \cup {"_", "-"}
        /\ \A i \in 2..Len(s) : s[i] \in letters \cup digits \cup {"_", "-"}

\* validateFieldName letting a digit start a name.
validateFieldName_DigitFirst(fieldName) ==
    IF fieldName.t = "str" /\ Includes(RESERVED_FIELD_NAMES, fieldName.v)
    THEN Obj(<< <<K_valid, False>>,
                <<K_reason, Str(<<"r", "e", "s", "e", "r", "v", "e", "d">>)>> >>)
    ELSE IF toString(fieldName) = <<>> \/ ~fieldNameRegex(<<"_">> \o toString(fieldName))
    THEN Obj(<< <<K_valid, False>>, <<K_reason, Str(<<"f", "o", "r", "m", "a", "t">>)>> >>)
    ELSE Obj(<< <<K_valid, True>> >>)

validateFieldName(fieldName) ==
    IF fieldName.t = "str" /\ Includes(RESERVED_FIELD_NAMES, fieldName.v)
    THEN Obj(<< <<K_valid, False>>,
                <<K_reason, Str(<<"r", "e", "s", "e", "r", "v", "e", "d">>)>>,
                <<K_suggestion,
                  Str(<<"U", "s", "e", " ", "a", " ", "d", "i", "f", "f",
                        "e", "r", "e", "n", "t", " ", "n", "a", "m", "e",
                        ",", " ", "'">>
                      \o fieldName.v
                      \o <<"'", " ", "i", "s", " ", "a", " ", "r", "e",
                           "s", "e", "r", "v", "e", "d", " ", "f", "i",
                           "e", "l", "d">>)>> >>)
    ELSE IF ~fieldNameRegex(toString(fieldName))
    THEN Obj(<< <<K_valid, False>>,
                <<K_reason, Str(<<"f", "o", "r", "m", "a", "t">>)>>,
                <<K_suggestion,
                  Str(<<"F", "i", "e", "l", "d", " ", "n", "a", "m", "e",
                        "s", " ", "m", "u", "s", "t", " ", "s", "t", "a",
                        "r", "t", " ", "w", "i", "t", "h", " ", "a", " ",
                        "l", "e", "t", "t", "e", "r", ",", " ", "u", "n",
                        "d", "e", "r", "s", "c", "o", "r", "e", ",", " ",
                        "o", "r", " ", "h", "y", "p", "h", "e", "n", ",">>
                      \o <<" ", "a", "n", "d", " ", "c", "o", "n", "t",
                           "a", "i", "n", " ", "o", "n", "l", "y", " ",
                           "l", "e", "t", "t", "e", "r", "s", ",", " ",
                           "n", "u", "m", "b", "e", "r", "s", ",", " ",
                           "u", "n", "d", "e", "r", "s", "c", "o", "r",
                           "e", "s", ",", " ", "a", "n", "d", " ", "h",
                           "y", "p", "h", "e", "n", "s">>)>> >>)
    ELSE Obj(<< <<K_valid, True>> >>)

-----------------------------------------------------------------------------
(* The names validateFieldName is called on.                               *)

\* The characters of the generated names: a letter of each case, a digit,
\* the two signs a name may hold, and two characters it may not.
NameAlphabet == {"a", "Z", "7", "_", "-", ".", " "}

\* Names written out: those of the tests, the name reserved for subtasks
\* only, a reserved name in another case.
NameExamples ==
    { <<"1", "2", "3", "f", "i", "e", "l", "d">>,
      <<"f", "i", "e", "l", "d", " ", "n", "a", "m", "e">>,
      <<"f", "i", "e", "l", "d", "@", "n", "a", "m", "e">>,
      <<"f", "i", "e", "l", "d", ".", "n", "a", "m", "e">>,
      <<"f", "i", "e", "l", "d", "!">>,
      <<"f", "i", "e", "l", "d", "#", "t", "a", "g">>,
      <<"e", "p", "i", "c", "N", "a", "m", "e">>,
      <<"e", "p", "i", "c", "_", "n", "a", "m", "e">>,
      <<"-", "e", "p", "i", "c">>,
      <<"E", "P", "I", "C">>,
      <<"e", "p", "i", "c", "1", "2", "3">>,
      <<"f", "i", "l", "e">>,
      <<"p", "a", "r", "e", "n", "t", "T", "a", "s", "k", "I", "d">>,
      <<"S", "t", "a", "t", "u", "s">> }

\* The arguments of validateFieldName: a core name, a name written out or a
\* string of at most MaxNameLen characters of the alphabet.
IsValidateArguments(p) ==
    \/ \E i \in DOMAIN CORE_FIELDS : p = Arr(<<Str(CORE_FIELDS[i])>>)
    \/ \E s \in NameExamples : p = Arr(<<Str(s)>>)
    \/ \E n \in 0..MaxNameLen :
           \E s \in [1..n -> NameAlphabet] : p = Arr(<<Str([i \in 1..n |-> s[i]])>>)

-----------------------------------------------------------------------------
(* queryTranslator.js: the suggestion of a field name.                     *)

\* s.startsWith(p).
StartsWith(s, p) == Len(p) <= Len(s) /\ SubSeq(s, 1, Len(p)) = p

\* a.find(callback), hits being the positions at which the callback is
\* truthy: the first such element, undefined when there is none.
Find(a, hits) ==
    IF hits = {} THEN Undefined
    ELSE a[CHOOSE i \in hits : \A j \in hits : i <= j]

\* Math.min of three numbers.
Min3(x, y, z) ==
    IF x <= y /\ x <= z THEN x ELSE IF y <= z THEN y ELSE z

\* matrix[i][0..a.length] as the inner loop of levenshteinDistance fills it:
\* row holds matrix[i][0..j-1], prev is matrix[i-1], ch is b.charAt(i - 1).
RECURSIVE MatrixRow(_, _, _, _, _)
MatrixRow(prev, a, ch, j, row) ==
    IF j > Len(a) THEN row
    ELSE MatrixRow(prev, a, ch, j + 1,
                   Append(row, IF ch = a[j] THEN prev[j]
                               ELSE Min3(prev[j] + 1, row[j] + 1, prev[j + 1] + 1)))

\* The outer loop of levenshteinDistance from row i on.
RECURSIVE MatrixFrom(_, _, _, _)
MatrixFrom(prev, a, b, i) ==
    IF i > Len(b) THEN prev
    ELSE MatrixFrom(MatrixRow(prev, a, b[i], 1, <<i>>), a, b, i + 1)

levenshteinDistance(a, b) ==
    MatrixFrom([j \in 1..(Len(a) + 1) |-> j - 1], a, b, 1)[Len(a) + 1]

\* candidates.sort((a, b) => a.distance - b.distance): the sort is stable,
\* a candidate goes after those whose distance is not greater.
RECURSIVE SortByDistance(_)
SortByDistance(candidates) ==
    IF Len(candidates) <= 1 THEN candidates
    ELSE LET last == candidates[Len(candidates)]
             front == SortByDistance(SubSeq(candidates, 1, Len(candidates) - 1))
             before == SelectSeq(front, LAMBDA c : c.distance <= last.distance)
             after == SelectSeq(front, LAMBDA c : c.distance > last.distance)
         IN  before \o <<last>> \o after

\* suggestFieldName looking for a prefix before an exact match.
suggestFieldName_PrefixFirst(input, availableFields) ==
    LET lowercaseInput == ToLowerCase(input.v)
        fields == availableFields.v
        exactMatch ==
            Find(fields, {i \in DOMAIN fields : ToLowerCase(fields[i].v) = lowercaseInput})
        prefixMatch ==
            Find(fields, {i \in DOMAIN fields :
                              StartsWith(ToLowerCase(fields[i].v), lowercaseInput)})
        containsMatch ==
            Find(fields, {i \in DOMAIN fields :
                              StrIncludes(ToLowerCase(fields[i].v), lowercaseInput)})
        closeMatches ==
            SortByDistance(SelectSeq(
                [i \in DOMAIN fields |->
                    [field |-> fields[i],
                     distance |-> levenshteinDistance(lowercaseInput,
                                                      ToLowerCase(fields[i].v))]],
                LAMBDA c : c.distance <= 2))
    IN  IF Truthy(prefixMatch) THEN prefixMatch
        ELSE IF Truthy(exactMatch) THEN exactMatch
        ELSE IF Truthy(containsMatch) THEN containsMatch
        ELSE IF closeMatches # <<>> THEN closeMatches[1].field
        ELSE Null

suggestFieldName(input, availableFields) ==
    LET lowercaseInput == ToLowerCase(input.v)
        fields == availableFields.v
        exactMatch ==
            Find(fields, {i \in DOMAIN fields : ToLowerCase(fields[i].v) = lowercaseInput})
        prefixMatch ==
            Find(fields, {i \in DOMAIN fields :
                              StartsWith(ToLowerCase(fields[i].v), lowercaseInput)})
        containsMatch ==
            Find(fields, {i \in DOMAIN fields :
                              StrIncludes(ToLowerCase(fields[i].v), lowercaseInput)})
        closeMatches ==
            SortByDistance(SelectSeq(
                [i \in DOMAIN fields |->
                    [field |-> fields[i],
                     distance |-> levenshteinDistance(lowercaseInput,
                                                      ToLowerCase(fields[i].v))]],
                LAMBDA c : c.distance <= 2))
    IN  IF Truthy(exactMatch) THEN exactMatch
        ELSE IF Truthy(prefixMatch) THEN prefixMatch
        ELSE IF Truthy(containsMatch) THEN containsMatch
        ELSE IF closeMatches # <<>> THEN closeMatches[1].field
        ELSE Null

-----------------------------------------------------------------------------
(* The inputs of suggestFieldName: what a user typed, and the custom field *)
(* names of the project, which are valid names.                            *)

InputAlphabet == {"e", "p", "i", "c", "x"}

InputExamples ==
    { <<"E", "P", "I", "C">>, <<"P", "i">>, <<"e", "p", "c", "i">>, <<"t", "o", "p">> }

FieldPool ==
    << Str(<<"e", "p", "i", "c">>), Str(<<"e", "p", "i", "c", "s">>),
       Str(<<"p", "i", "e">>), Str(<<"t", "i", "e">>),
       Str(<<"T", "o", "p", "i", "c">>) >>

\* The arguments of suggestFieldName: an example or a string of at most
\* MaxNameLen characters of the alphabet, and an array of at most MaxFields
\* distinct names of the pool, in any order.
IsSuggestArguments(p) ==
    \E n \in 0..MaxFields :
        \E pick \in [1..n -> DOMAIN FieldPool] :
            /\ \A i, j \in 1..n : i # j => pick[i] # pick[j]
            /\ \/ \E s \in InputExamples :
                      p = Arr(<<Str(s), Arr([i \in 1..n |-> FieldPool[pick[i]]])>>)
               \/ \E m \in 0..MaxNameLen :
                      \E s \in [1..m -> InputAlphabet] :
                          p = Arr(<<Str([i \in 1..m |-> s[i]]),
                                    Arr([i \in 1..n |-> FieldPool[pick[i]]])>>)

-----------------------------------------------------------------------------
(* The state machine of the field names: params holds the arguments of one *)
(* call, a name to validate or an input and the available fields.          *)

InitFieldNames ==
    /\ tasks = Undefined
    /\ IsValidateArguments(params) \/ IsSuggestArguments(params)
    /\ arg = Undefined
    /\ out = Undefined
    /\ ops = <<>>

ValidateFieldName ==
    /\ ops = <<>>
    /\ Len(params.v) = 1
    /\ Call("validateFieldName", params.v[1], validateFieldName(params.v[1]))

SuggestFieldName ==
    /\ ops = <<>>
    /\ Len(params.v) = 2
    /\ Call("suggestFieldName", params, suggestFieldName(params.v[1], params.v[2]))

NextFieldNames ==
    \/ ValidateFieldName
    \/ SuggestFieldName

SpecFieldNames == InitFieldNames /\ [][NextFieldNames]_vars

-----------------------------------------------------------------------------
(* fuzzyTaskSearch.js: the weights of the fields and the search keys.      *)

K_dependencyTitles ==
    <<"d", "e", "p", "e", "n", "d", "e", "n", "c", "y", "T", "i", "t", "l",
      "e", "s">>
K_taskType == <<"t", "a", "s", "k", "T", "y", "p", "e">>
K_assignee == <<"a", "s", "s", "i", "g", "n", "e", "e">>
K_sprint == <<"s", "p", "r", "i", "n", "t">>
K_default == <<"d", "e", "f", "a", "u", "l", "t">>
K_name == <<"n", "a", "m", "e">>
K_weight == <<"w", "e", "i", "g", "h", "t">>

\* FIELD_WEIGHTS.  The weights are held in tenths: Num(20) is 2.0.
FIELD_WEIGHTS ==
    Obj(<< <<K_title, Num(20)>>, <<K_description, Num(15)>>, <<K_details, Num(10)>>,
           <<K_dependencyTitles, Num(5)>>, <<K_epic, Num(18)>>,
           <<K_component, Num(15)>>, <<K_taskType, Num(16)>>,
           <<K_assignee, Num(12)>>, <<K_sprint, Num(14)>>, <<K_default, Num(10)>> >>)

\* The names of the members an object literal inherits from Object.prototype.
ObjectPrototypeKeys ==
    { <<"c", "o", "n", "s", "t", "r", "u", "c", "t", "o", "r">>,
      <<"t", "o", "S", "t", "r", "i", "n", "g">>,
      <<"v", "a", "l", "u", "e", "O", "f">>,
      <<"h", "a", "s", "O", "w", "n", "P", "r", "o", "p", "e", "r", "t",
        "y">>,
      <<"i", "s", "P", "r", "o", "t", "o", "t", "y", "p", "e", "O", "f">>,
      <<"p", "r", "o", "p", "e", "r", "t", "y", "I", "s", "E", "n", "u",
        "m", "e", "r", "a", "b", "l", "e">>,
      <<"t", "o", "L", "o", "c", "a", "l", "e", "S", "t", "r", "i", "n",
        "g">>,
      <<"_", "_", "p", "r", "o", "t", "o", "_", "_">>,
      <<"_", "_", "d", "e", "f", "i", "n", "e", "G", "e", "t", "t", "e",
        "r", "_", "_">>,
      <<"_", "_", "d", "e", "f", "i", "n", "e", "S", "e", "t", "t", "e",
        "r", "_", "_">>,
      <<"_", "_", "l", "o", "o", "k", "u", "p", "G", "e", "t", "t", "e",
        "r", "_", "_">>,
      <<"_", "_", "l", "o", "o", "k", "u", "p", "S", "e", "t", "t", "e",
        "r", "_", "_">> }

\* The member k of Object.prototype: a function, or under __proto__ the
\* prototype itself.  Neither is a number, and both are truthy.
Inherited(k) == [t |-> "inherited", v |-> k]

\* o[k] for an object literal o: its own property, or else the member it
\* inherits, or else undefined.
GetMember(o, k) ==
    IF HasOwn(o, k) THEN GetProp(o, k)
    ELSE IF k \in ObjectPrototypeKeys THEN Inherited(k)
    ELSE Undefined

\* getWeightForField(fieldName).
getWeightForField(fieldName) ==
    IF Truthy(GetMember(FIELD_WEIGHTS, fieldName.v))
    THEN GetMember(FIELD_WEIGHTS, fieldName.v)
    ELSE GetProp(FIELD_WEIGHTS, K_default)

\* Object.keys(x.customFields).forEach(field => fieldNames.add(field)) that
\* keeps a name the Set already holds once more.
AddKeys_Repeated(fieldNames, keys) == fieldNames \o keys

\* Object.keys(x.customFields).forEach(field => fieldNames.add(field)) on a
\* Set held in its insertion order: the keys of an object are distinct, and
\* add leaves a Set that holds the name as it is.
AddKeys(fieldNames, keys) ==
    fieldNames \o SelectSeq(keys, LAMBDA k : \A i \in DOMAIN fieldNames : fieldNames[i] # k)

\* if (x.customFields) { ... } for a task or a subtask x.
AddCustomFields(fieldNames, x) ==
    IF Truthy(GetProp(x, K_customFields))
    THEN AddKeys(fieldNames, Keys(GetProp(x, K_customFields)))
    ELSE fieldNames

\* task.subtasks.forEach(...), from the subtask at position i on.
RECURSIVE AddSubtasks(_, _, _)
AddSubtasks(fieldNames, subtasks, i) ==
    IF i > Len(subtasks) THEN fieldNames
    ELSE AddSubtasks(AddCustomFields(fieldNames, subtasks[i]), subtasks, i + 1)

\* The body of tasks.forEach for one task.
AddTask(fieldNames, task) ==
    IF Truthy(GetProp(task, K_subtasks))
    THEN AddSubtasks(AddCustomFields(fieldNames, task), GetProp(task, K_subtasks).v, 1)
    ELSE AddCustomFields(fieldNames, task)

\* tasks.forEach(...), from the task at position i on.
RECURSIVE AddTasks(_, _, _)
AddTasks(fieldNames, ts, i) ==
    IF i > Len(ts) THEN fieldNames
    ELSE AddTasks(AddTask(fieldNames, ts[i]), ts, i + 1)

\* getCustomFieldNames(tasks): Array.from(fieldNames).
getCustomFieldNames(ts) == AddTasks(<<>>, ts.v, 1)

\* The coreFields of generateSearchKeys.
SearchCoreFields == <<K_title, K_description, K_details, K_dependencyTitles>>

\* generateSearchKeys(tasks).
generateSearchKeys(ts) ==
    Arr([i \in DOMAIN SearchCoreFields |->
             Obj(<< <<K_name, Str(SearchCoreFields[i])>>,
                    <<K_weight, getWeightForField(Str(SearchCoreFields[i]))>> >>)]
        \o [i \in DOMAIN getCustomFieldNames(ts) |->
             Obj(<< <<K_name, Str(K_customFields \o <<".">> \o getCustomFieldNames(ts)[i])>>,
                    <<K_weight, getWeightForField(Str(getCustomFieldNames(ts)[i]))>> >>)])

-----------------------------------------------------------------------------
(* The inputs of the search keys: tasks with and without custom fields, on *)
(* the task and on its subtasks, and a task with many custom fields.       *)

ManyFields == 50

K_riskLevel == <<"r", "i", "s", "k", "L", "e", "v", "e", "l">>
K_subComponent ==
    <<"s", "u", "b", "C", "o", "m", "p", "o", "n", "e", "n", "t">>

\* The custom fields field0 .. field<n-1>, with the values value0 ...
FieldsUpTo(n) ==
    Obj([i \in 1..n |->
            << <<"f", "i", "e", "l", "d">> \o NumToString(i - 1),
               Str(<<"v", "a", "l", "u", "e">> \o NumToString(i - 1)) >>])

SearchTaskPool ==
    << Obj(<< <<K_id, Num(1)>>, <<K_title, TitleT>>,
              <<K_customFields, Obj(<< <<K_epic, Epic1>>, <<K_component, Auth>> >>)>> >>),
       Obj(<< <<K_id, Num(2)>>, <<K_title, TitleT>>,
              <<K_customFields, Obj(<< <<K_riskLevel, High>>, <<K_epic, Epic5>> >>)>>,
              <<K_subtasks,
                Arr(<< Obj(<< <<K_id, Num(1)>>, <<K_title, TitleS>>,
                              <<K_customFields,
                                Obj(<< <<K_component, Auth>>,
                                       <<K_subComponent, Auth>> >>)>> >>),
                       Obj(<< <<K_id, Num(2)>>, <<K_title, TitleS>> >>) >>)>> >>),
       Obj(<< <<K_id, Num(3)>>, <<K_title, TitleT>> >>),
       Obj(<< <<K_id, Num(4)>>, <<K_title, TitleT>>, <<K_customFields, Null>>,
              <<K_subtasks, EmptyArr>> >>),
       Obj(<< <<K_id, Num(5)>>, <<K_title, TitleT>>,
              <<K_customFields, FieldsUpTo(ManyFields)>> >>),
       Obj(<< <<K_id, Num(6)>>, <<K_title, TitleT>>, <<K_customFields, EmptyObj>>,
              <<K_subtasks,
                Arr(<< Obj(<< <<K_id, Num(1)>>, <<K_title, TitleS>>,
                              <<K_customFields, Obj(<< <<K_epic, Epic1>> >>)>> >>) >>)>> >>) >>

\* The task arrays the keys are generated for: at most MaxTasks distinct
\* tasks of the pool, in any order.
IsSearchTasks(ts) ==
    \E n \in 0..MaxTasks :
        \E pick \in [1..n -> DOMAIN SearchTaskPool] :
            /\ \A i, j \in 1..n : i # j => pick[i] # pick[j]
            /\ ts = Arr([i \in 1..n |-> SearchTaskPool[pick[i]]])

\* Field names written out: those of the tests.
WeightExamples ==
    { <<"u", "n", "k", "n", "o", "w", "n", "F", "i", "e", "l", "d">>,
      <<"c", "u", "s", "t", "o", "m", "T", "a", "g">> }

\* The field names a weight is asked for: a key of FIELD_WEIGHTS, the name
\* of a member of Object.prototype, an example or a string of at most
\* MaxNameLen characters of the alphabet of the names.
IsWeightName(p) ==
    \/ \E i \in DOMAIN FIELD_WEIGHTS.v : p = Str(FIELD_WEIGHTS.v[i][1])
    \/ \E k \in ObjectPrototypeKeys : p = Str(k)
    \/ \E s \in WeightExamples : p = Str(s)
    \/ \E m \in 0..MaxNameLen :
           \E s \in [1..m -> NameAlphabet] : p = Str([i \in 1..m |-> s[i]])

-----------------------------------------------------------------------------
(* The state machine of the search keys: tasks holds the task array of a   *)
(* call of generateSearchKeys, params the name of a call of                *)
(* getWeightForField.                                                      *)

InitSearch ==
    /\ \/ IsSearchTasks(tasks) /\ params = Undefined
       \/ tasks = Undefined /\ IsWeightName(params)
    /\ arg = Undefined
    /\ out = Undefined
    /\ ops = <<>>

GenerateSearchKeys ==
    /\ ops = <<>>
    /\ tasks # Undefined
    /\ Call("generateSearchKeys", tasks, generateSearchKeys(tasks))

GetWeightForField ==
    /\ ops = <<>>
    /\ params # Undefined
    /\ Call("getWeightForField", params, getWeightForField(params))

NextSearch ==
    \/ GenerateSearchKeys
    \/ GetWeightForField

SpecSearch == InitSearch /\ [][NextSearch]_vars

-----------------------------------------------------------------------------
(* subtaskValidator.js: validateSubtaskStructure, findOrphanedSubtasks and *)
(* createSubtaskIntegrityReport.                                           *)

K_issues == <<"i", "s", "s", "u", "e", "s">>
K_isValid == <<"i", "s", "V", "a", "l", "i", "d">>
K_summary == <<"s", "u", "m", "m", "a", "r", "y">>
K_totalTasks == <<"t", "o", "t", "a", "l", "T", "a", "s", "k", "s">>
K_tasksWithSubtasks ==
    <<"t", "a", "s", "k", "s", "W", "i", "t", "h", "S", "u", "b", "t", "a",
      "s", "k", "s">>
K_totalSubtasks ==
    <<"t", "o", "t", "a", "l", "S", "u", "b", "t", "a", "s", "k", "s">>
K_subtasksWithIssues ==
    <<"s", "u", "b", "t", "a", "s", "k", "s", "W", "i", "t", "h", "I", "s",
      "s", "u", "e", "s">>
K_orphanedSubtasks ==
    <<"o", "r", "p", "h", "a", "n", "e", "d", "S", "u", "b", "t", "a", "s",
      "k", "s">>
K_integrityScore ==
    <<"i", "n", "t", "e", "g", "r", "i", "t", "y", "S", "c", "o", "r", "e">>
K_isHealthy == <<"i", "s", "H", "e", "a", "l", "t", "h", "y">>
K_actualParentId ==
    <<"a", "c", "t", "u", "a", "l", "P", "a", "r", "e", "n", "t", "I", "d">>
K_invalidParentId ==
    <<"i", "n", "v", "a", "l", "i", "d", "P", "a", "r", "e", "n", "t", "I",
      "d">>
K_context == <<"c", "o", "n", "t", "e", "x", "t">>

\* The fixed parts of the messages.
M_Task == <<"T", "a", "s", "k", " ">>
M_Subtask == <<":", " ", "S", "u", "b", "t", "a", "s", "k", " ">>
M_AtIndex ==
    <<":", " ", "S", "u", "b", "t", "a", "s", "k", " ", "a", "t", " ", "i",
      "n", "d", "e", "x", " ">>
M_MissingId == <<" ", "m", "i", "s", "s", "i", "n", "g", " ", "i", "d">>
M_MissingParentTaskId ==
    <<" ", "m", "i", "s", "s", "i", "n", "g", " ", "p", "a", "r", "e", "n",
      "t", "T", "a", "s", "k", "I", "d">>
M_IncorrectParentTaskId ==
    <<" ", "h", "a", "s", " ", "i", "n", "c", "o", "r", "r", "e", "c", "t",
      " ", "p", "a", "r", "e", "n", "t", "T", "a", "s", "k", "I", "d", " ",
      "(">>
M_Duplicate ==
    <<":", " ", "D", "u", "p", "l", "i", "c", "a", "t", "e", " ", "s", "u",
      "b", "t", "a", "s", "k", " ", "I", "D", " ">>
M_MissingTitle ==
    <<" ", "m", "i", "s", "s", "i", "n", "g", " ", "t", "i", "t", "l", "e">>
M_NotAnArray ==
    <<"T", "a", "s", "k", "s", " ", "m", "u", "s", "t", " ", "b", "e", " ",
      "a", "n", " ", "a", "r", "r", "a", "y">>
M_FoundIn ==
    <<"F", "o", "u", "n", "d", " ", "i", "n", " ", "t", "a", "s", "k", " ">>
M_References ==
    <<" ", "b", "u", "t", " ", "r", "e", "f", "e", "r", "e", "n", "c", "e",
      "s", " ", "n", "o", "n", "-", "e", "x", "i", "s", "t", "e", "n", "t",
      " ", "p", "a", "r", "e", "n", "t", " ">>

\* The sequences of ss, one after the other.
RECURSIVE Concat(_)
Concat(ss) == IF ss = <<>> THEN <<>> ELSE ss[1] \o Concat(Tail(ss))

\* subtaskIds.has(subtask.id) at subtask i of subtasks: the Set holds the
\* truthy ids of the subtasks before it.
SeenBefore(subtasks, i) ==
    \E j \in 1..(i - 1) :
        /\ Truthy(GetProp(subtasks[j], K_id))
        /\ GetProp(subtasks[j], K_id) = GetProp(subtasks[i], K_id)

\* The messages the callback of task.subtasks.forEach pushes for subtask i
\* (lines 106-133), in the order it pushes them.
SubtaskIssues(task, subtasks, i) ==
    LET subtask == subtasks[i]
        taskId == M_Task \o toString(GetProp(task, K_id))
        subtaskId == toString(GetProp(subtask, K_id))
    IN  (IF ~Truthy(GetProp(subtask, K_id))
         THEN <<Str(taskId \o M_AtIndex \o NumToString(i - 1) \o M_MissingId)>>
         ELSE <<>>)
        \o (IF ~Truthy(GetProp(subtask, K_parentTaskId))
            THEN <<Str(taskId \o M_Subtask \o subtaskId \o M_MissingParentTaskId)>>
            ELSE IF ~StrictEq(GetProp(subtask, K_parentTaskId), GetProp(task, K_id))
            THEN <<Str(taskId \o M_Subtask \o subtaskId \o M_IncorrectParentTaskId
                       \o toString(GetProp(subtask, K_parentTaskId)) \o <<")">>)>>
            ELSE <<>>)
        \o (IF Truthy(GetProp(subtask, K_id)) /\ SeenBefore(subtasks, i)
            THEN <<Str(taskId \o M_Duplicate \o subtaskId)>>
            ELSE <<>>)
        \o (IF ~Truthy(GetProp(subtask, K_title))
            THEN <<Str(taskId \o M_Subtask \o subtaskId \o M_MissingTitle)>>
            ELSE <<>>)

\* Whether the callback of tasks.forEach raises a TypeError for a task: it
\* reads a property of each entry of an array of subtasks, and an entry is
\* null.
SubtaskReadThrows(task) ==
    /\ Truthy(GetProp(task, K_subtasks))
    /\ IsArray(GetProp(task, K_subtasks))
    /\ \E i \in DOMAIN GetProp(task, K_subtasks).v :
           IsNullish(GetProp(task, K_subtasks).v[i])

\* The messages the callback of validatedTasks.forEach pushes for a task
\* (lines 99-134).
TaskIssues(task) ==
    LET subtasks == GetProp(task, K_subtasks)
    IN  IF ~Truthy(subtasks) \/ ~IsArray(subtasks) THEN <<>>
        ELSE Concat([i \in DOMAIN subtasks.v |-> SubtaskIssues(task, subtasks.v, i)])

\* validateSubtaskStructure(tasks, { fixIssues }).
validateSubtaskStructure(ts, fixIssues) ==
    IF ~IsArray(ts)
    THEN Obj(<< <<K_tasks, ts>>, <<K_issues, Arr(<<Str(M_NotAnArray)>>)>>,
                <<K_isValid, False>> >>)
    ELSE LET validatedTasks == IF fixIssues THEN ensureSubtaskParentIds(ts) ELSE ts
         IN  IF validatedTasks = Throw THEN Throw
             ELSE IF \E i \in DOMAIN validatedTasks.v :
                         SubtaskReadThrows(validatedTasks.v[i])
             THEN Throw
             ELSE LET issues ==
                          Concat([i \in DOMAIN validatedTasks.v |->
                                     TaskIssues(validatedTasks.v[i])])
                  IN  Obj(<< <<K_tasks, validatedTasks>>, <<K_issues, Arr(issues)>>,
                             <<K_isValid, IF Len(issues) = 0 THEN True ELSE False>> >>)

\* The test of line 164 without its second half: the subtask names a
\* parent.
IsOrphaned_AnyParent(subtask, ts) ==
    Truthy(GetProp(subtask, K_parentTaskId))

\* The test of line 164: the subtask names a parent that is no task.
IsOrphaned(subtask, ts) ==
    /\ Truthy(GetProp(subtask, K_parentTaskId))
    /\ \A i \in DOMAIN ts : GetProp(ts[i], K_id) # GetProp(subtask, K_parentTaskId)

\* What the callback of tasks.forEach pushes for a task (lines 158-173).
TaskOrphans(task, ts) ==
    LET subtasks == GetProp(task, K_subtasks)
    IN  IF ~Truthy(subtasks) \/ ~IsArray(subtasks) THEN <<>>
        ELSE Concat([i \in DOMAIN subtasks.v |->
                 IF IsOrphaned(subtasks.v[i], ts)
                 THEN << Obj(DefineOwn(DefineOwn(DefineOwn(Spread(subtasks.v[i]),
                             K_actualParentId, GetProp(task, K_id)),
                             K_invalidParentId, GetProp(subtasks.v[i], K_parentTaskId)),
                             K_context,
                             Str(M_FoundIn \o toString(GetProp(task, K_id)) \o M_References
                                 \o toString(GetProp(subtasks.v[i], K_parentTaskId)))))>>
                 ELSE <<>>])

\* findOrphanedSubtasks(tasks).
findOrphanedSubtasks(ts) ==
    IF ~IsArray(ts) THEN EmptyArr
    ELSE IF \E i \in DOMAIN ts.v : SubtaskReadThrows(ts.v[i]) THEN Throw
    ELSE Arr(Concat([i \in DOMAIN ts.v |-> TaskOrphans(ts.v[i], ts.v)]))

\* The test of line 194: the task has a non-empty array of subtasks.
HasSubtasks(task) ==
    /\ Truthy(GetProp(task, K_subtasks))
    /\ IsArray(GetProp(task, K_subtasks))
    /\ Len(GetProp(task, K_subtasks).v) > 0

\* The test of line 199.
HasParentIdIssue(subtask, task) ==
    \/ ~Truthy(GetProp(subtask, K_parentTaskId))
    \/ ~StrictEq(GetProp(subtask, K_parentTaskId), GetProp(task, K_id))

\* (num / den * 100).toFixed(1) that drops the digits after the first
\* decimal.
toFixed1_Truncated(num, den) ==
    NumToString((1000 * num) \div (10 * den)) \o <<".">>
        \o NumToString(((1000 * num) \div den) % 10)

\* (num / den * 100).toFixed(1) for 0 <= num <= den, 0 < den: the decimal
\* with one digit after the point nearest to the number, the larger of two
\* at the same distance.  For den < 16 no quotient is within a rounding
\* error of the middle of two such decimals, so the floating-point result
\* is that of the exact quotient.
toFixed1(num, den) ==
    NumToString(((2000 * num + den) \div (2 * den)) \div 10) \o <<".">>
        \o NumToString(((2000 * num + den) \div (2 * den)) % 10)

\* createSubtaskIntegrityReport(tasks).  tasks.forEach of a value that is
\* no array raises a TypeError.
createSubtaskIntegrityReport(ts) ==
    LET validation == validateSubtaskStructure(ts, FALSE)
        orphanedSubtasks == findOrphanedSubtasks(ts)
    IN  IF validation = Throw \/ orphanedSubtasks = Throw \/ ~IsArray(ts) THEN Throw
        ELSE LET n == Len(ts.v)
                 withSubtasks == [i \in 1..n |-> IF HasSubtasks(ts.v[i]) THEN 1 ELSE 0]
                 subtasksOf == [i \in 1..n |->
                                   IF HasSubtasks(ts.v[i])
                                   THEN GetProp(ts.v[i], K_subtasks).v ELSE <<>>]
                 lengths == [i \in 1..n |-> Len(subtasksOf[i])]
                 withIssues == [i \in 1..n |->
                                   Cardinality({j \in DOMAIN subtasksOf[i] :
                                       HasParentIdIssue(subtasksOf[i][j], ts.v[i])})]
                 totalSubtasks == SumTo(lengths, n)
                 subtasksWithIssues == SumTo(withIssues, n)
             IN  Obj(<< <<K_summary,
                          Obj(<< <<K_totalTasks, Num(n)>>,
                                 <<K_tasksWithSubtasks, Num(SumTo(withSubtasks, n))>>,
                                 <<K_totalSubtasks, Num(totalSubtasks)>>,
                                 <<K_subtasksWithIssues, Num(subtasksWithIssues)>>,
                                 <<K_orphanedSubtasks, Num(Len(orphanedSubtasks.v))>>,
                                 <<K_integrityScore,
                                   IF totalSubtasks > 0
                                   THEN Str(toFixed1(totalSubtasks - subtasksWithIssues,
                                                     totalSubtasks) \o <<"%">>)
                                   ELSE Str(<<"1", "0", "0", "%">>)>> >>)>>,
                        <<K_issues, GetProp(validation, K_issues)>>,
                        <<K_orphanedSubtasks, orphanedSubtasks>>,
                        <<K_isHealthy,
                          IF GetProp(validation, K_isValid) = True
                             /\ Len(orphanedSubtasks.v) = 0
                          THEN True ELSE False>> >>)

-----------------------------------------------------------------------------
(* The inputs of the validation: tasks with distinct ids, one of them the  *)
(* id 0, each without subtasks or with an array of at most MaxSubtasks     *)
(* subtask entries; and a value that is no array.                          *)

\* Subtask entries: one without parentTaskId, one that names task 1, one
\* with the same id that names no task, one without id and title, and the
\* malformed entry null.
ReportSubtaskPool ==
    { Obj(<< <<K_id, Num(1)>>, <<K_title, TitleS>> >>),
      Obj(<< <<K_id, Num(2)>>, <<K_title, TitleS>>, <<K_parentTaskId, Num(1)>> >>),
      Obj(<< <<K_id, Num(2)>>, <<K_title, TitleS>>, <<K_parentTaskId, Num(999)>> >>),
      Obj(<< <<K_parentTaskId, Num(1)>> >>),
      Null }

\* A task without its subtasks property.
ReportTaskBases ==
    << << <<K_id, Num(1)>>, <<K_title, TitleT>> >>,
       << <<K_id, Num(0)>>, <<K_title, TitleT>> >> >>

IsReportTasks(ts) ==
    \/ ts = Str(<<"x">>)
    \/ \E n \in 0..MaxTasks :
           \E pick \in [1..n -> DOMAIN ReportTaskBases],
              missing \in [1..n -> BOOLEAN], count \in [1..n -> 0..MaxSubtasks] :
               /\ \A i, j \in 1..n : i # j => pick[i] # pick[j]
               /\ \A i \in 1..n : missing[i] => count[i] = 0
               /\ \E entries \in [1..n -> [1..MaxSubtasks -> ReportSubtaskPool]] :
                      /\ \A i \in 1..n : \A j \in 1..MaxSubtasks :
                             j > count[i] => entries[i][j] = Null
                      /\ ts = Arr([i \in 1..n |->
                                  IF missing[i] THEN Obj(ReportTaskBases[pick[i]])
                                  ELSE Obj(Append(ReportTaskBases[pick[i]],
                                           <<K_subtasks,
                                             Arr([j \in 1..count[i] |-> entries[i][j]])>>))])

-----------------------------------------------------------------------------
(* The state machine of the validation: one call on the tasks.             *)

InitValidate ==
    /\ IsReportTasks(tasks)
    /\ params = Undefined
    /\ arg = Undefined
    /\ out = Undefined
    /\ ops = <<>>

\* validateSubtaskStructure(tasks) and validateSubtaskStructure(tasks,
\* { fixIssues: false }).
ValidateSubtaskStructure ==
    /\ ops = <<>>
    /\ \E fixIssues \in BOOLEAN :
           Call(IF fixIssues THEN "validateSubtaskStructure"
                ELSE "validateSubtaskStructure/fixIssues:false",
                tasks, validateSubtaskStructure(tasks, fixIssues))

CreateSubtaskIntegrityReport ==
    /\ ops = <<>>
    /\ Call("createSubtaskIntegrityReport", tasks, createSubtaskIntegrityReport(tasks))

NextValidate ==
    \/ ValidateSubtaskStructure
    \/ CreateSubtaskIntegrityReport

SpecValidate == InitValidate /\ [][NextValidate]_vars

-----------------------------------------------------------------------------
(* backwardCompatibility.js: the data of a tag and of a whole file.        *)

K_rawTaggedData ==
    <<"_", "r", "a", "w", "T", "a", "g", "g", "e", "d", "D", "a", "t", "a">>

\* typeof v === 'object': objects, arrays and null.
TypeofObject(v) == v.t \in {"obj", "arr", "null"}

\* A falsy tagData, or one without a truthy tasks, is returned as it is;
\* otherwise { ...tagData, tasks: ensureTasksBackwardCompatibility(...) }.
ensureTagDataBackwardCompatibility(tagData) ==
    IF ~Truthy(tagData) THEN tagData
    ELSE IF ~Truthy(GetProp(tagData, K_tasks)) THEN tagData
    ELSE LET compatible == ensureTasksBackwardCompatibility(GetProp(tagData, K_tasks))
         IN  IF compatible = Throw THEN Throw
             ELSE Obj(DefineOwn(Spread(tagData), K_tasks, compatible))

\* The body of the for-in loop of ensureDataBackwardCompatibility passing
\* every value through.
ProcessedEntry_PassThrough(processedData, tagName, value) ==
    Obj(AssignProp(processedData.v, tagName, value))

\* The body of the for-in loop of ensureDataBackwardCompatibility (lines
\* 93-104) for one own property.  typeof null is 'object', so the test reads
\* the tasks of a null value: a TypeError.
ProcessedEntry(processedData, tagName, value) ==
    IF TypeofObject(value)
    THEN IF IsNullish(value) THEN Throw
         ELSE IF Truthy(GetProp(value, K_tasks))
         THEN LET compatible == ensureTagDataBackwardCompatibility(value)
              IN  IF compatible = Throw THEN Throw
                  ELSE Obj(AssignProp(processedData.v, tagName, compatible))
         ELSE Obj(AssignProp(processedData.v, tagName, value))
    ELSE Obj(AssignProp(processedData.v, tagName, value))

\* The for-in loop over the entries not yet seen.
RECURSIVE ProcessEntries(_, _)
ProcessEntries(processedData, entries) ==
    IF processedData = Throw \/ entries = <<>> THEN processedData
    ELSE ProcessEntries(ProcessedEntry(processedData, entries[1][1], entries[1][2]),
                        Tail(entries))

\* for-in visits the own enumerable properties of data in insertion order
\* (no key of the model is an array index, and the objects of the model
\* inherit no enumerable property).
ensureDataBackwardCompatibility(data, isLegacy, created, updated) ==
    IF ~Truthy(data) THEN data
    ELSE IF Truthy(isLegacy)
    THEN migrateLegacyFormatWithCustomFields(data, created, updated)
    ELSE ProcessEntries(EmptyObj, Spread(data))

\* hasTaggedStructure taking every object for the data of a tag.
hasTaggedStructure_AnyObject(data) ==
    /\ Truthy(data)
    /\ TypeofObject(data)
    /\ \E i \in DOMAIN Spread(data) :
           LET value == Spread(data)[i][2]
           IN  Truthy(value) /\ TypeofObject(value)

hasTaggedStructure(data) ==
    /\ Truthy(data)
    /\ TypeofObject(data)
    /\ \E i \in DOMAIN Spread(data) :
           LET value == Spread(data)[i][2]
           IN  /\ Truthy(value)
               /\ TypeofObject(value)
               /\ IsArray(GetProp(value, K_tasks))

\* data && Array.isArray(data.tasks) && !data._rawTaggedData &&
\* !hasTaggedStructure(data): the first falsy operand, or the last one.
isLegacyFormat(data) ==
    IF ~Truthy(data) THEN data
    ELSE IF ~IsArray(GetProp(data, K_tasks)) THEN False
    ELSE IF Truthy(GetProp(data, K_rawTaggedData)) THEN False
    ELSE IF hasTaggedStructure(data) THEN False ELSE True

-----------------------------------------------------------------------------
(* The data read from a tasks file: the data of tags under their names,    *)
(* metadata siblings of every type, or a legacy object.                    *)

MaxDataKeys == 3
MaxDataCalls == 4

K_feature == <<"f", "e", "a", "t", "u", "r", "e">>
K_version == <<"v", "e", "r", "s", "i", "o", "n">>
K_currentTag == <<"c", "u", "r", "r", "e", "n", "t", "T", "a", "g">>
K_broken == <<"b", "r", "o", "k", "e", "n">>

\* A legacy task array: a task without customFields holding a subtask
\* without customFields.
LegacyTasks ==
    Arr(<< Obj(<< <<K_id, Num(1)>>, <<K_title, TitleT>>,
                  <<K_subtasks, Arr(<< Obj(<< <<K_id, Num(1)>>, <<K_title, TitleS>> >>) >>)>> >>) >>)

\* A task array that needs no change.
CurrentTasks ==
    Arr(<< Obj(<< <<K_id, Num(5)>>, <<K_title, TitleT>>,
                  <<K_customFields, Obj(<< <<K_epic, Epic1>> >>)>>,
                  <<K_subtasks, EmptyArr>> >>) >>)

StoredMetadata == Obj(<< <<K_created, Str(IsoTimes[1])>> >>)

\* The top-level properties of stored data: the data of two tags, the
\* tasks and the metadata of a legacy file, siblings that are a string, a
\* number, null and an object without tasks, an object whose tasks is no
\* array, the raw data a read attaches, and the key '__proto__' of a parsed
\* file.
DataEntryPool ==
    << <<K_master, Obj(<< <<K_tasks, LegacyTasks>>, <<K_metadata, StoredMetadata>> >>)>>,
       <<K_feature, Obj(<< <<K_tasks, CurrentTasks>> >>)>>,
       <<K_tasks, LegacyTasks>>,
       <<K_tasks, EmptyArr>>,
       <<K_metadata, StoredMetadata>>,
       <<K_description, Str(<<"d">>)>>,
       <<K_version, Num(1)>>,
       <<K_currentTag, Null>>,
       <<K_broken, Obj(<< <<K_tasks, Num(3)>> >>)>>,
       <<K_rawTaggedData, Obj(<< <<K_master, Obj(<< <<K_tasks, EmptyArr>> >>)>> >>)>>,
       <<K_proto, Obj(<< <<K_tasks, EmptyArr>> >>)>> >>

\* null, undefined, or an object of at most MaxDataKeys entries of the pool
\* under distinct keys, in any order.
IsData(data) ==
    \/ data \in {Null, Undefined}
    \/ \E n \in 0..MaxDataKeys :
           \E pick \in [1..n -> DOMAIN DataEntryPool] :
               /\ \A i, j \in 1..n :
                      i # j => DataEntryPool[pick[i]][1] # DataEntryPool[pick[j]][1]
               /\ data = Obj([i \in 1..n |-> DataEntryPool[pick[i]]])

-----------------------------------------------------------------------------
(* The state machine of a read: the format of the data is detected, the    *)
(* data processed as legacy or as tagged data, and the result detected     *)
(* again.                                                                  *)

\* The data the next call is made on: what the last processing returned.
DataNow ==
    IF ops = <<>> THEN tasks
    ELSE IF ops[Len(ops)] = "isLegacyFormat" THEN arg ELSE out

CanCallData == Len(ops) < MaxDataCalls /\ DataNow # Throw

InitData ==
    /\ IsData(tasks)
    /\ params = Undefined
    /\ arg = Undefined
    /\ out = Undefined
    /\ ops = <<>>

IsLegacyFormat ==
    /\ CanCallData
    /\ ops # <<>> => ops[Len(ops)] # "isLegacyFormat"
    /\ Call("isLegacyFormat", DataNow, isLegacyFormat(DataNow))

\* ensureDataBackwardCompatibility(data) and
\* ensureDataBackwardCompatibility(data, false).
EnsureDataBackwardCompatibility ==
    /\ CanCallData
    /\ Call("ensureDataBackwardCompatibility", DataNow,
            ensureDataBackwardCompatibility(DataNow, False, IsoTimes[1], IsoTimes[1]))

\* ensureDataBackwardCompatibility(data, true), on data detected as legacy.
MigrateLegacyData ==
    /\ CanCallData
    /\ ops # <<>>
    /\ ops[Len(ops)] = "isLegacyFormat"
    /\ out = True
    /\ \E u \in DOMAIN IsoTimes :
           Call("ensureDataBackwardCompatibility/isLegacyFormat:true", DataNow,
                ensureDataBackwardCompatibility(DataNow, True, IsoTimes[1], IsoTimes[u]))

NextData ==
    \/ IsLegacyFormat
    \/ EnsureDataBackwardCompatibility
    \/ MigrateLegacyData

SpecData == InitData /\ [][NextData]_vars

-----------------------------------------------------------------------------
(* fuzzyTaskSearch.js: the tasks related to a prompt.  The Fuse index is   *)
(* a library object: what is known of fuse.search(query) is that it        *)
(* returns, for a query, a list of results { item, score } on distinct     *)
(* items of the collection, the best score first.                          *)

K_prompt == <<"p", "r", "o", "m", "p", "t">>
K_fuse == <<"f", "u", "s", "e">>
K_item == <<"i", "t", "e", "m">>
K_score == <<"s", "c", "o", "r", "e">>
K_promptWords == <<"p", "r", "o", "m", "p", "t", "W", "o", "r", "d", "s">>
K_searched == <<"s", "e", "a", "r", "c", "h", "e", "d">>
K_mergedResults ==
    <<"m", "e", "r", "g", "e", "d", "R", "e", "s", "u", "l", "t", "s">>
K_fuzzyMatches ==
    <<"f", "u", "z", "z", "y", "M", "a", "t", "c", "h", "e", "s">>
K_wordMatches == <<"w", "o", "r", "d", "M", "a", "t", "c", "h", "e", "s">>

\* \w of a regular expression: a letter, a digit or '_'.
WordChars ==
    {UpperCase[i] : i \in DOMAIN UpperCase} \cup {LowerCase[i] : i \in DOMAIN LowerCase}
        \cup {Digits[i] : i \in DOMAIN Digits} \cup {"_"}

\* s.split(/\s+/): the pieces between the runs of white space; a string
\* that starts or ends with white space gives an empty first or last piece.
RECURSIVE SplitWhiteSpace(_)
SplitWhiteSpace(s) ==
    IF \A i \in DOMAIN s : s[i] \notin WhiteSpace THEN <<s>>
    ELSE LET i == CHOOSE k \in DOMAIN s :
                      s[k] \in WhiteSpace /\ \A j \in 1..(k - 1) : s[j] \notin WhiteSpace
         IN  <<SubSeq(s, 1, i - 1)>> \o SplitWhiteSpace(TrimStart(SubSeq(s, i, Len(s))))

\* _extractPromptWords(prompt) (lines 184-190), as strings.
extractPromptWords(prompt) ==
    LET lowered == ToLowerCase(prompt.v)
        replaced == [i \in DOMAIN lowered |->
                        IF lowered[i] \in WordChars \cup WhiteSpace \cup {"-"}
                        THEN lowered[i] ELSE " "]
    IN  SelectSeq(SplitWhiteSpace(replaced), LAMBDA word : Len(word) > 3)

\* The titles of the dependencies of task that are tasks of ts, joined by
\* spaces (lines 159-168).
RECURSIVE DependencyTitles(_, _)
DependencyTitles(ts, depIds) ==
    IF depIds = <<>> THEN <<>>
    ELSE LET found == {i \in DOMAIN ts.v : StrictEq(GetProp(ts.v[i], K_id), depIds[1])}
             title == IF found = {} THEN Str(<<>>)
                      ELSE GetProp(ts.v[CHOOSE i \in found : \A j \in found : i <= j], K_title)
             rest == DependencyTitles(ts, Tail(depIds))
         IN  IF ~Truthy(title) THEN rest
             ELSE IF rest = <<>> THEN toString(title)
             ELSE toString(title) \o <<" ">> \o rest

\* _prepareSearchableTasks(tasks) (lines 156-175).
prepareSearchableTasks(ts) ==
    Arr([i \in DOMAIN ts.v |->
            LET dependencies == GetProp(ts.v[i], K_dependencies)
            IN  Obj(DefineOwn(Spread(ts.v[i]), K_dependencyTitles,
                              IF IsArray(dependencies) /\ dependencies.v # <<>>
                              THEN Str(DependencyTitles(ts, dependencies.v))
                              ELSE Str(<<>>)))])

\* fuse.search(query): the results the index gives for the query, on items
\* of the searchable tasks, with scores in hundredths that grow along the
\* list.
FuseSearch(fuse, searchable, query) ==
    LET refs == GetProp(fuse, query.v).v
    IN  [i \in DOMAIN refs |->
            Obj(<< <<K_item, searchable.v[refs[i].v]>>, <<K_score, Num(10 * i)>> >>)]

\* The loop of lines 226-230: a word result is pushed when no merged result
\* has its item id.
RECURSIVE MergeResults(_, _)
MergeResults(mergedResults, wordResults) ==
    IF wordResults = <<>> THEN mergedResults
    ELSE LET wordResult == wordResults[1]
             present ==
                 \E i \in DOMAIN mergedResults :
                     StrictEq(GetProp(GetProp(mergedResults[i], K_item), K_id),
                              GetProp(GetProp(wordResult, K_item), K_id))
         IN  MergeResults(IF present THEN mergedResults
                          ELSE Append(mergedResults, wordResult),
                          Tail(wordResults))

\* findRelevantTasks(prompt) up to the merged results (lines 200-231): the
\* prompt words (breakdown.promptWords), the queries given to fuse.search in
\* the order of the calls, the merged results, and the two counts of
\* metadata.
findRelevantTasks(ts, fuse, prompt) ==
    LET searchable == prepareSearchableTasks(ts)
        promptWords == extractPromptWords(prompt)
        fuzzyResults == FuseSearch(fuse, searchable, prompt)
        usedWords == SelectSeq(promptWords, LAMBDA word : Len(word) > 5)
        wordResults ==
            Concat([i \in DOMAIN usedWords |-> FuseSearch(fuse, searchable, Str(usedWords[i]))])
    IN  Obj(<< <<K_promptWords, Arr([i \in DOMAIN promptWords |-> Str(promptWords[i])])>>,
               <<K_searched,
                 Arr(<<prompt>> \o [i \in DOMAIN usedWords |-> Str(usedWords[i])])>>,
               <<K_mergedResults, Arr(MergeResults(fuzzyResults, wordResults))>>,
               <<K_fuzzyMatches, Num(Len(fuzzyResults))>>,
               <<K_wordMatches, Num(Len(wordResults))>> >>)

-----------------------------------------------------------------------------
(* The inputs of a search: three tasks, a prompt, and an index that gives  *)
(* each query the prompt can lead to a list of at most MaxHits results.    *)

MaxHits == 2

SearchedTasks ==
    Arr(<< Obj(<< <<K_id, Num(1)>>, <<K_title, Str(<<"l", "o", "g", "i", "n">>)>> >>),
           Obj(<< <<K_id, Num(2)>>, <<K_title, Str(<<"s", "c", "h", "e", "m", "a">>)>> >>),
           Obj(<< <<K_id, Num(3)>>, <<K_title, Str(<<"a", "u", "t", "h">>)>>,
                  <<K_dependencies, Arr(<<Num(1), Num(9)>>)>> >>) >>)

\* Prompts with words of 3, 4, 5, 6 and more characters, a word repeated
\* in two cases, punctuation, a hyphen, white space at both ends, and the
\* empty prompt.
Prompts ==
    { Str(<<"f", "i", "x", " ", "l", "o", "g", "i", "n", " ", "b", "u",
            "g">>),
      Str(<<"d", "a", "t", "a", "b", "a", "s", "e", " ", "s", "c", "h",
            "e", "m", "a">>),
      Str(<<"S", "c", "h", "e", "m", "a", ",", " ", "s", "c", "h", "e",
            "m", "a", "!">>),
      Str(<<"t", "a", "s", "k">>),
      Str(<<>>),
      Str(<<" ", "a", "d", "d", " ", "u", "s", "e", "r", "-", "a", "u",
            "t", "h", " ">>),
      Str(<<"u", "p", "d", "a", "t", "e", " ", "l", "o", "g", "i", "n">>) }

\* The sequence s without the repetitions of its elements.
RECURSIVE Distinct(_)
Distinct(s) ==
    IF s = <<>> THEN <<>>
    ELSE LET front == Distinct(SubSeq(s, 1, Len(s) - 1))
         IN  IF \E i \in DOMAIN front : front[i] = s[Len(s)] THEN front
             ELSE Append(front, s[Len(s)])

\* The queries a prompt can lead to: the prompt and its words.
QueriesOf(prompt) == Distinct(<<prompt.v>> \o extractPromptWords(prompt))

\* The result lists of the index: at most MaxHits distinct tasks, by their
\* positions in the collection.
HitLists ==
    UNION { { refs \in [1..n -> DOMAIN SearchedTasks.v] :
                 \A i, j \in 1..n : i # j => refs[i] # refs[j] } : n \in 0..MaxHits }

IsSearchArguments(p) ==
    \E prompt \in Prompts :
        \E hits \in [DOMAIN QueriesOf(prompt) -> HitLists] :
            p = Obj(<< <<K_prompt, prompt>>,
                       <<K_fuse,
                         Obj([q \in DOMAIN QueriesOf(prompt) |->
                                <<QueriesOf(prompt)[q],
                                  Arr([i \in DOMAIN hits[q] |-> Num(hits[q][i])])>>])>> >>)

-----------------------------------------------------------------------------
(* The state machine of a search: one call on the prompt.                  *)

InitRelevant ==
    /\ tasks = SearchedTasks
    /\ IsSearchArguments(params)
    /\ arg = Undefined
    /\ out = Undefined
    /\ ops = <<>>

FindRelevantTasks ==
    /\ ops = <<>>
    /\ Call("findRelevantTasks", GetProp(params, K_prompt),
            findRelevantTasks(tasks, GetProp(params, K_fuse), GetProp(params, K_prompt)))

NextRelevant == FindRelevantTasks

SpecRelevant == InitRelevant /\ [][NextRelevant]_vars

-----------------------------------------------------------------------------
(* queryTranslator.js: the validation of the parameters of a query.        *)

K_errors == <<"e", "r", "r", "o", "r", "s">>
K_warnings == <<"w", "a", "r", "n", "i", "n", "g", "s">>
K_suggestions == <<"s", "u", "g", "g", "e", "s", "t", "i", "o", "n", "s">>

\* The three arrays of validateQueryParameters.
Feedback(errors, warnings, suggestions) ==
    [errors |-> errors, warnings |-> warnings, suggestions |-> suggestions]

\* The callback of the forEach warning only of a field that has a
\* suggestion.
ValidatedName_WarnsWithSuggestion(feedback, fieldName, availableCustomFields) ==
    LET validation == validateFieldName(Str(fieldName))
    IN  IF GetProp(validation, K_valid) # True
        THEN Feedback(Append(feedback.errors, Str(<<"!">> \o fieldName)),
                      feedback.warnings, feedback.suggestions)
        ELSE IF ~Includes(availableCustomFields.v, Str(fieldName))
                /\ Truthy(suggestFieldName(Str(fieldName), availableCustomFields))
        THEN Feedback(feedback.errors,
                      Append(feedback.warnings, Str(fieldName)),
                      Append(feedback.suggestions, Str(fieldName)))
        ELSE feedback

\* The callback of the forEach of validateQueryParameters (lines 560-582)
\* for one key of customFields.
ValidatedName(feedback, fieldName, availableCustomFields) ==
    LET validation == validateFieldName(Str(fieldName))
    IN  IF ~Truthy(GetProp(validation, K_valid))
        THEN IF StrictEq(GetProp(validation, K_reason),
                         Str(<<"r", "e", "s", "e", "r", "v", "e", "d">>))
             THEN Feedback(
                      Append(feedback.errors,
                             Str(<<"F", "i", "e", "l", "d", " ", "'">>
                                 \o fieldName
                                 \o <<"'", " ", "i", "s", " ", "r", "e",
                                      "s", "e", "r", "v", "e", "d", " ",
                                      "a", "n", "d", " ", "c", "a", "n",
                                      "n", "o", "t", " ", "b", "e", " ",
                                      "u", "s", "e", "d", " ", "a", "s",
                                      " ", "a", " ", "c", "u", "s", "t",
                                      "o", "m", " ", "f", "i", "e", "l",
                                      "d">>)),
                      feedback.warnings, feedback.suggestions)
             ELSE Feedback(
                      Append(feedback.errors,
                             Str(<<"I", "n", "v", "a", "l", "i", "d", " ",
                                   "f", "i", "e", "l", "d", " ", "n", "a",
                                   "m", "e", " ", "f", "o", "r", "m", "a",
                                   "t", ":", " ", "'">>
                                 \o fieldName \o <<"'", ".", " ">>
                                 \o toString(GetProp(validation, K_suggestion)))),
                      feedback.warnings, feedback.suggestions)
        ELSE IF ~Includes(availableCustomFields.v, Str(fieldName))
        THEN LET suggestion == suggestFieldName(Str(fieldName), availableCustomFields)
             IN  IF Truthy(suggestion)
                 THEN Feedback(
                          feedback.errors,
                          Append(feedback.warnings,
                                 Str(<<"C", "u", "s", "t", "o", "m", " ",
                                       "f", "i", "e", "l", "d", " ", "'">>
                                     \o fieldName
                                     \o <<"'", " ", "n", "o", "t", " ",
                                          "f", "o", "u", "n", "d">>)),
                          Append(feedback.suggestions,
                                 Str(<<"D", "i", "d", " ", "y", "o", "u",
                                       " ", "m", "e", "a", "n", " ", "'">>
                                     \o suggestion.v \o <<"'", "?">>)))
                 ELSE Feedback(
                          feedback.errors,
                          Append(feedback.warnings,
                                 Str(<<"C", "u", "s", "t", "o", "m", " ",
                                       "f", "i", "e", "l", "d", " ", "'">>
                                     \o fieldName
                                     \o <<"'", " ", "n", "o", "t", " ",
                                          "f", "o", "u", "n", "d", " ",
                                          "i", "n", " ", "a", "n", "y",
                                          " ", "t", "a", "s", "k", "s">>)),
                          feedback.suggestions)
        ELSE feedback

\* The forEach over the keys not yet seen.
RECURSIVE ValidatedNames(_, _, _)
ValidatedNames(feedback, fieldNames, availableCustomFields) ==
    IF fieldNames = <<>> THEN feedback
    ELSE ValidatedNames(ValidatedName(feedback, fieldNames[1], availableCustomFields),
                        Tail(fieldNames), availableCustomFields)

\* validateQueryParameters(params, availableCustomFields); the two copies
\* of the function are the same.
validateQueryParameters(p, availableCustomFields) ==
    LET translated == translateQueryParameters(p)
    IN  IF translated = Throw THEN Throw
        ELSE LET feedback ==
                     ValidatedNames(Feedback(<<>>, <<>>, <<>>),
                                    Keys(GetProp(translated, K_customFields)),
                                    availableCustomFields)
             IN  Obj(<< <<K_valid, IF feedback.errors = <<>> THEN True ELSE False>>,
                        <<K_errors, Arr(feedback.errors)>>,
                        <<K_warnings, Arr(feedback.warnings)>>,
                        <<K_suggestions, Arr(feedback.suggestions)>> >>)

-----------------------------------------------------------------------------
(* customFieldsValidator.js: the validation of a customFields object.      *)

K_reservedErrors ==
    <<"r", "e", "s", "e", "r", "v", "e", "d", "E", "r", "r", "o", "r", "s">>
K_formatErrors ==
    <<"f", "o", "r", "m", "a", "t", "E", "r", "r", "o", "r", "s">>
K_errorMessage ==
    <<"e", "r", "r", "o", "r", "M", "e", "s", "s", "a", "g", "e">>

\* An Error thrown with a message (throw new Error(message)).
Error(message) == [t |-> "error", v |-> message]

\* RESERVED_FIELD_NAMES of customFieldsValidator.js.
customFieldsValidator_RESERVED_FIELD_NAMES ==
    <<K_id, K_title, K_description, K_details, K_testStrategy, K_status,
      K_priority, K_dependencies, K_subtasks, K_customFields, K_parentTaskId>>

\* FIELD_NAME_REGEX.test(s): the regular expression of fieldNameRegex.
FIELD_NAME_REGEX(s) == fieldNameRegex(s)

\* names.join(', ').
RECURSIVE JoinNames(_)
JoinNames(names) ==
    IF names = <<>> THEN <<>>
    ELSE IF Len(names) = 1 THEN names[1]
    ELSE names[1] \o <<",", " ">> \o JoinNames(Tail(names))

\* validateCustomFieldNames(customFields); Object.keys raises a TypeError
\* for null and undefined.
validateCustomFieldNames(customFields) ==
    IF IsNullish(customFields) THEN Throw
    ELSE LET fieldNames == Keys(Obj(Spread(customFields)))
             reservedErrors ==
                 SelectSeq(fieldNames,
                           LAMBDA fieldName :
                               Includes(customFieldsValidator_RESERVED_FIELD_NAMES, fieldName))
             formatErrors ==
                 SelectSeq(fieldNames, LAMBDA fieldName : ~FIELD_NAME_REGEX(fieldName))
             isValid == reservedErrors = <<>> /\ formatErrors = <<>>
             reservedMessage ==
                 <<"I", "n", "v", "a", "l", "i", "d", " ", "c", "u", "s",
                   "t", "o", "m", " ", "f", "i", "e", "l", "d", " ", "n",
                   "a", "m", "e", "s", " ", "(", "r", "e", "s", "e", "r",
                   "v", "e", "d", ")", ":", " ">>
                 \o JoinNames(reservedErrors)
             formatMessage ==
                 <<"I", "n", "v", "a", "l", "i", "d", " ", "c", "u", "s",
                   "t", "o", "m", " ", "f", "i", "e", "l", "d", " ", "n",
                   "a", "m", "e", " ", "f", "o", "r", "m", "a", "t", ":",
                   " ">>
                 \o JoinNames(formatErrors)
                 \o <<".", " ", "F", "i", "e", "l", "d", " ", "n", "a",
                      "m", "e", "s", " ", "m", "u", "s", "t", " ", "s",
                      "t", "a", "r", "t", " ", "w", "i", "t", "h", " ",
                      "a", " ", "l", "e", "t", "t", "e", "r", ",", " ",
                      "u", "n", "d", "e", "r", "s", "c", "o", "r", "e",
                      ",", " ", "o", "r", " ", "h", "y", "p", "h", "e",
                      "n", ",", " ", "a", "n", "d", " ", "c", "o", "n",
                      "t", "a", "i", "n", " ", "o", "n", "l", "y", " ",
                      "l", "e", "t", "t", "e", "r", "s", ",", " ", "n",
                      "u", "m", "b", "e", "r", "s", ",", " ", "u", "n",
                      "d", "e", "r", "s", "c", "o", "r", "e", "s", ",",
                      " ", "a", "n", "d", " ", "h", "y", "p", "h", "e",
                      "n", "s", ".">>
             errorMessage ==
                 IF isValid THEN <<>>
                 ELSE IF formatErrors = <<>> THEN reservedMessage
                 ELSE IF reservedErrors = <<>> THEN formatMessage
                 ELSE reservedMessage \o <<";", " ">> \o formatMessage
         IN  Obj(<< <<K_isValid, IF isValid THEN True ELSE False>>,
                    <<K_reservedErrors,
                      Arr([i \in DOMAIN reservedErrors |-> Str(reservedErrors[i])])>>,
                    <<K_formatErrors,
                      Arr([i \in DOMAIN formatErrors |-> Str(formatErrors[i])])>>,
                    <<K_errorMessage, Str(errorMessage)>> >>)

\* validateCustomFieldsSchema(customFields): the schema is
\* z.record(z.string()).optional().default({}), so undefined gives {}, an
\* object whose values are all strings gives an object with its entries,
\* and anything else an Error.
validateCustomFieldsSchema(customFields) ==
    IF customFields = Undefined THEN EmptyObj
    ELSE IF customFields.t = "obj"
            /\ \A i \in DOMAIN customFields.v : customFields.v[i][2].t = "str"
    THEN customFields
    ELSE Error(<<"C", "u", "s", "t", "o", "m", " ", "f", "i", "e", "l",
                 "d", "s", " ", "s", "c", "h", "e", "m", "a", " ", "v",
                 "a", "l", "i", "d", "a", "t", "i", "o", "n", " ", "f",
                 "a", "i", "l", "e", "d">>)

\* validateCustomFields(customFields) (lines 549-562).
validateCustomFields(customFields) ==
    LET validatedFields == validateCustomFieldsSchema(customFields)
    IN  IF validatedFields.t = "error" THEN validatedFields
        ELSE LET nameValidation == validateCustomFieldNames(validatedFields)
             IN  IF ~Truthy(GetProp(nameValidation, K_isValid))
                 THEN Error(GetProp(nameValidation, K_errorMessage).v)
                 ELSE validatedFields

-----------------------------------------------------------------------------
(* The names given to the validations: as the keys of the parameters of a  *)
(* query or of a customFields object, with the custom fields the tasks     *)
(* have.                                                                   *)

MaxNames == 3

K_estimate == <<"e", "s", "t", "i", "m", "a", "t", "e">>

\* Names under a value: custom names the tasks have and have not, one a
\* typing error away from a name they have, reserved names, the name
\* reserved for subtasks, a core name that is not reserved, malformed
\* names, the key '__proto__', and a custom name under a number.
NamedValuePool ==
    << <<K_epic, Epic1>>,
       <<K_component, Auth>>,
       <<<<"e", "p", "c", "i">>, Epic1>>,
       <<<<"z", "z", "z", "z", "z", "z">>, Epic1>>,
       <<K_status, Pending>>,
       <<K_customFields, Epic1>>,
       <<K_parentTaskId, Str(<<"1">>)>>,
       <<K_file, Str(<<"f">>)>>,
       <<<<"1", "x">>, Epic1>>,
       <<<<"a", " ", "b">>, Epic1>>,
       <<K_proto, Epic1>>,
       <<K_estimate, Num(3)>> >>

\* The custom field names extracted from the tasks.
AvailablePool ==
    { EmptyArr,
      Arr(<<Str(K_epic)>>),
      Arr(<<Str(K_component), Str(K_epic)>>) }

\* The arguments: an object of at most MaxNames entries of the pool under
\* distinct names, in any order, and the available custom fields.
IsNamingArguments(p) ==
    \E n \in 0..MaxNames, available \in AvailablePool :
        \E pick \in [1..n -> DOMAIN NamedValuePool] :
            /\ \A i, j \in 1..n : i # j => pick[i] # pick[j]
            /\ p = Arr(<<Obj([i \in 1..n |-> NamedValuePool[pick[i]]]), available>>)

-----------------------------------------------------------------------------
(* The state machine of the naming: one call of an entry point of the      *)
(* validation of field names.                                              *)

InitNaming ==
    /\ tasks = Undefined
    /\ IsNamingArguments(params)
    /\ arg = Undefined
    /\ out = Undefined
    /\ ops = <<>>

\* validateFieldName on one of the names.
ValidateNameOfField ==
    /\ ops = <<>>
    /\ \E i \in DOMAIN params.v[1].v :
           Call("validateFieldName", Str(params.v[1].v[i][1]),
                validateFieldName(Str(params.v[1].v[i][1])))

ValidateQueryParameters ==
    /\ ops = <<>>
    /\ Call("validateQueryParameters", params,
            validateQueryParameters(params.v[1], params.v[2]))

ValidateCustomFieldNames ==
    /\ ops = <<>>
    /\ Call("validateCustomFieldNames", params.v[1], validateCustomFieldNames(params.v[1]))

ValidateCustomFields ==
    /\ ops = <<>>
    /\ Call("validateCustomFields", params.v[1], validateCustomFields(params.v[1]))

NextNaming ==
    \/ ValidateNameOfField
    \/ ValidateQueryParameters
    \/ ValidateCustomFieldNames
    \/ ValidateCustomFields

SpecNaming == InitNaming /\ [][NextNaming]_vars

-----------------------------------------------------------------------------
(* Queries made of the parameters of the command line that are not         *)
(* attributes of a task: file, projectRoot, tag, withSubtasks and          *)
(* complexityReport (the last five names of CORE_FIELDS).                  *)

QueryOnlyParamPool ==
    << <<K_file, Str(<<"t", "a", "s", "k", "s", ".", "j", "s", "o", "n">>)>>,
       <<K_projectRoot, Str(<<"/", "p">>)>>,
       <<K_tag, Str(<<"m", "a", "s", "t", "e", "r">>)>>,
       <<K_tag, Undefined>>,
       <<K_withSubtasks, True>>,
       <<K_complexityReport, Str(<<"r", ".", "j", "s", "o", "n">>)>> >>

\* The parameter objects: entries of the pool under distinct keys, in any
\* order.
IsQueryOnlyParams(p) ==
    \E n \in 0..MaxParams :
        \E pick \in [1..n -> DOMAIN QueryOnlyParamPool] :
            /\ \A i, j \in 1..n :
                   i # j => QueryOnlyParamPool[pick[i]][1] # QueryOnlyParamPool[pick[j]][1]
            /\ p = Obj([i \in 1..n |-> QueryOnlyParamPool[pick[i]]])

InitQueryOnly ==
    /\ IsQueryTasks(tasks)
    /\ IsQueryOnlyParams(params)
    /\ arg = Undefined
    /\ out = Undefined
    /\ ops = <<>>

\* The calls of a query, on these parameters.
SpecQueryOnly == InitQueryOnly /\ [][NextQuery]_vars

-----------------------------------------------------------------------------
(* The transforms on a heap.  An object or an array is a cell of the heap, *)
(* reached through a reference; a property or an element holds a          *)
(* primitive value or a reference.  An object literal, an array literal,   *)
(* map and filter allocate a cell; an assignment to a property writes the  *)
(* cell of its object.  A memory is a heap and a value.                    *)

Ref(a) == [t |-> "ref", v |-> a]
Memory(heap, val) == [heap |-> heap, val |-> val]

\* The element of a set of one element.  {F(m) : m \in {e}} is {F(e)}, e
\* being evaluated first and once: a statement ends before the next
\* begins.
Only(S) == CHOOSE x \in S : TRUE

\* A new cell.
Alloc(heap, cell) == Memory(Append(heap, cell), Ref(Len(heap) + 1))

\* v[k] for a value that is neither null nor undefined.
HeapGet(heap, v, k) ==
    IF v.t = "ref" /\ heap[v.v].t = "obj" THEN GetProp(heap[v.v], k) ELSE Undefined

\* Array.isArray(v).
IsArrayRef(heap, v) == v.t = "ref" /\ heap[v.v].t = "arr"

\* The value read from a memory, references followed: what JSON.stringify
\* would show.
RECURSIVE Materialize(_, _)
Materialize(heap, v) ==
    IF v.t # "ref" THEN v
    ELSE LET cell == heap[v.v]
         IN  IF cell.t = "obj"
             THEN Obj([i \in DOMAIN cell.v |->
                          <<cell.v[i][1], Materialize(heap, cell.v[i][2])>>])
             ELSE Arr([i \in DOMAIN cell.v |-> Materialize(heap, cell.v[i])])

\* The memory that holds a value read from JSON: a cell of its own for
\* each object and array.
RECURSIVE Store(_, _)
RECURSIVE StoreEntries(_, _, _)
RECURSIVE StoreElements(_, _, _)
Store(heap, value) ==
    IF value.t = "obj"
    THEN Only({Alloc(m.heap, Obj(m.val)) : m \in {StoreEntries(heap, value.v, <<>>)}})
    ELSE IF value.t = "arr"
    THEN Only({Alloc(m.heap, Arr(m.val)) : m \in {StoreElements(heap, value.v, <<>>)}})
    ELSE Memory(heap, value)
StoreEntries(heap, entries, stored) ==
    IF entries = <<>> THEN Memory(heap, stored)
    ELSE Only({StoreEntries(m.heap, Tail(entries),
                            Append(stored, <<entries[1][1], m.val>>)) :
               m \in {Store(heap, entries[1][2])}})
StoreElements(heap, elements, stored) ==
    IF elements = <<>> THEN Memory(heap, stored)
    ELSE Only({StoreElements(m.heap, Tail(elements), Append(stored, m.val)) :
               m \in {Store(heap, elements[1])}})

\* subtaskValidator.js, line 45, assigning the property of the subtask
\* given: subtask.parentTaskId = task.id; return subtask.
CorrectedSubtask_InPlace(heap, subtask, taskId) ==
    Memory([heap EXCEPT ![subtask.v] =
                Obj(DefineOwn(Spread(heap[subtask.v]), K_parentTaskId, taskId))],
           subtask)

\* subtaskValidator.js, lines 45-48: { ...subtask, parentTaskId: task.id }.
CorrectedSubtask(heap, subtask, taskId) ==
    Alloc(heap, Obj(DefineOwn(Spread(heap[subtask.v]), K_parentTaskId, taskId)))

\* The callback of task.subtasks.map of ensureSubtaskParentIds (lines
\* 34-52).
HeapValidatedSubtask(heap, subtask, taskId) ==
    LET parentTaskId == HeapGet(heap, subtask, K_parentTaskId)
    IN  IF ~Truthy(parentTaskId) \/ ~StrictEq(parentTaskId, taskId)
        THEN CorrectedSubtask(heap, subtask, taskId)
        ELSE Memory(heap, subtask)

\* task.subtasks.map of ensureSubtaskParentIds, validated being the results
\* so far.
RECURSIVE HeapValidatedSubtasks(_, _, _, _)
HeapValidatedSubtasks(heap, subtasks, taskId, validated) ==
    IF subtasks = <<>> THEN Alloc(heap, Arr(validated))
    ELSE Only({HeapValidatedSubtasks(m.heap, Tail(subtasks), taskId,
                                     Append(validated, m.val)) :
               m \in {HeapValidatedSubtask(heap, subtasks[1], taskId)}})

\* The callback of tasks.map of ensureSubtaskParentIds (lines 29-58).
HeapValidatedTask(heap, task) ==
    LET subtasks == HeapGet(heap, task, K_subtasks)
    IN  IF \/ ~Truthy(subtasks)
           \/ ~IsArrayRef(heap, subtasks)
           \/ Len(heap[subtasks.v].v) = 0
        THEN Memory(heap, task)
        ELSE Only({Alloc(validatedSubtasks.heap,
                         Obj(DefineOwn(Spread(heap[task.v]), K_subtasks,
                                       validatedSubtasks.val))) :
                   validatedSubtasks \in
                       {HeapValidatedSubtasks(heap, heap[subtasks.v].v,
                                              HeapGet(heap, task, K_id), <<>>)}})

\* tasks.map of ensureSubtaskParentIds.
RECURSIVE HeapValidatedTasks(_, _, _)
HeapValidatedTasks(heap, ts, validated) ==
    IF ts = <<>> THEN Alloc(heap, Arr(validated))
    ELSE Only({HeapValidatedTasks(m.heap, Tail(ts), Append(validated, m.val)) :
               m \in {HeapValidatedTask(heap, ts[1])}})

\* ensureSubtaskParentIds(tasks) on a heap.
HeapEnsureSubtaskParentIds(heap, ts) ==
    IF ~IsArrayRef(heap, ts) THEN Memory(heap, ts)
    ELSE HeapValidatedTasks(heap, heap[ts.v].v, <<>>)

\* ensureCustomFields(item) on a heap:
\* { ...item, customFields: item.customFields || {} }.
HeapEnsureCustomFields(heap, item) ==
    LET customFields == HeapGet(heap, item, K_customFields)
    IN  Only({Alloc(m.heap, Obj(DefineOwn(Spread(heap[item.v]), K_customFields, m.val))) :
              m \in {IF Truthy(customFields) THEN Memory(heap, customFields)
                     ELSE Alloc(heap, EmptyObj)}})

\* task.subtasks.map(ensureCustomFields), ensured being the results so far.
RECURSIVE HeapEnsuredSubtasks(_, _, _)
HeapEnsuredSubtasks(heap, subtasks, ensured) ==
    IF subtasks = <<>> THEN Alloc(heap, Arr(ensured))
    ELSE Only({HeapEnsuredSubtasks(m.heap, Tail(subtasks), Append(ensured, m.val)) :
               m \in {HeapEnsureCustomFields(heap, subtasks[1])}})

\* The subtasks of the callback of tasks.map of ensureCustomFieldsOnTasks
\* (line 616), for a task whose subtasks are an array or falsy:
\* task.subtasks ? task.subtasks.map(ensureCustomFields)
\*               : (task.subtasks || []).
HeapEnsuredSubtasksOf(heap, task) ==
    LET subtasks == HeapGet(heap, task, K_subtasks)
    IN  IF Truthy(subtasks)
        THEN HeapEnsuredSubtasks(heap, heap[subtasks.v].v, <<>>)
        ELSE Alloc(heap, EmptyArr)

\* The callback of tasks.map of ensureCustomFieldsOnTasks (lines 614-617):
\* { ...ensureCustomFields(task), subtasks: ... }.
HeapEnsuredTask(heap, task) ==
    Only({Only({Alloc(ensuredSubtasks.heap,
                      Obj(DefineOwn(Spread(ensuredSubtasks.heap[ensuredTask.val.v]),
                                    K_subtasks, ensuredSubtasks.val))) :
                ensuredSubtasks \in {HeapEnsuredSubtasksOf(ensuredTask.heap, task)}}) :
          ensuredTask \in {HeapEnsureCustomFields(heap, task)}})

RECURSIVE HeapEnsuredTasks(_, _, _)
HeapEnsuredTasks(heap, ts, ensured) ==
    IF ts = <<>> THEN Alloc(heap, Arr(ensured))
    ELSE Only({HeapEnsuredTasks(m.heap, Tail(ts), Append(ensured, m.val)) :
               m \in {HeapEnsuredTask(heap, ts[1])}})

\* ensureCustomFieldsOnTasks(tasks) on a heap, for an array of tasks.
HeapEnsureCustomFieldsOnTasks(heap, ts) ==
    HeapEnsuredTasks(heap, heap[ts.v].v, <<>>)

\* ensureTagDataBackwardCompatibility(tagData) on a heap.
HeapEnsureTagData(heap, tagData) ==
    IF ~Truthy(tagData) \/ ~Truthy(HeapGet(heap, tagData, K_tasks))
    THEN Memory(heap, tagData)
    ELSE Only({Alloc(ensured.heap,
                     Obj(DefineOwn(Spread(heap[tagData.v]), K_tasks, ensured.val))) :
               ensured \in {HeapEnsureCustomFieldsOnTasks(
                                heap, HeapGet(heap, tagData, K_tasks))}})

\* The metadata of migrateLegacyFormatWithCustomFields (lines 63-67):
\* legacyData.metadata || { created, updated, description }.
HeapMigratedMetadata(heap, legacyData, created, updated) ==
    IF Truthy(HeapGet(heap, legacyData, K_metadata))
    THEN Memory(heap, HeapGet(heap, legacyData, K_metadata))
    ELSE Alloc(heap, DefaultMetadata(created, updated))

\* The object returned by migrateLegacyFormatWithCustomFields:
\* { master: { tasks, metadata } }.
HeapMigrated(heap, tasksWithCustomFields, metadata) ==
    Only({Alloc(master.heap, Obj(<< <<K_master, master.val>> >>)) :
          master \in {Alloc(heap, Obj(<< <<K_tasks, tasksWithCustomFields>>,
                                         <<K_metadata, metadata>> >>))}})

\* migrateLegacyFormatWithCustomFields(legacyData) on a heap.
HeapMigrateLegacyFormat(heap, legacyData, created, updated) ==
    Only({Only({HeapMigrated(metadata.heap, tasksWithCustomFields.val, metadata.val) :
                metadata \in {HeapMigratedMetadata(tasksWithCustomFields.heap,
                                                   legacyData, created, updated)}}) :
          tasksWithCustomFields \in
              {HeapEnsureCustomFieldsOnTasks(heap, HeapGet(heap, legacyData, K_tasks))}})

\* The value of an entry of the data in the loop of
\* ensureDataBackwardCompatibility (lines 94-104); the values are no null.
HeapProcessedValue(heap, value) ==
    IF value.t = "ref" /\ Truthy(HeapGet(heap, value, K_tasks))
    THEN HeapEnsureTagData(heap, value)
    ELSE Memory(heap, value)

\* The for-in loop of ensureDataBackwardCompatibility (lines 93-105) over
\* the entries not yet seen: processedData[tagName] = ... writes the cell
\* of processedData.
RECURSIVE HeapProcessEntries(_, _, _)
HeapProcessEntries(heap, processedData, entries) ==
    IF entries = <<>> THEN Memory(heap, processedData)
    ELSE Only({HeapProcessEntries(
                   [m.heap EXCEPT ![processedData.v] =
                       Obj(AssignProp(m.heap[processedData.v].v, entries[1][1], m.val))],
                   processedData, Tail(entries)) :
               m \in {HeapProcessedValue(heap, entries[1][2])}})

\* ensureDataBackwardCompatibility(data, isLegacyFormat) on a heap.
HeapEnsureData(heap, data, isLegacy, created, updated) ==
    IF ~Truthy(data) THEN Memory(heap, data)
    ELSE IF Truthy(isLegacy)
    THEN HeapMigrateLegacyFormat(heap, data, created, updated)
    ELSE Only({HeapProcessEntries(processedData.heap, processedData.val,
                                  Spread(heap[data.v])) :
               processedData \in {Alloc(heap, EmptyObj)}})

\* The forEach of filterTasks over the entries of filters.coreFields:
\* results = results.filter(...).  The callback reads the task.
RECURSIVE HeapFilterCoreFields(_, _, _)
HeapFilterCoreFields(heap, results, entries) ==
    IF results = Throw \/ entries = <<>> THEN Memory(heap, results)
    ELSE LET field == entries[1][1]
             value == entries[1][2]
             elements == heap[results.v].v
         IN  IF \E i \in DOMAIN elements :
                    CoreThrows(Materialize(heap, elements[i]), field, value)
             THEN Memory(heap, Throw)
             ELSE Only({HeapFilterCoreFields(filtered.heap, filtered.val, Tail(entries)) :
                        filtered \in
                            {Alloc(heap,
                                   Arr(SelectSeq(elements,
                                           LAMBDA task :
                                               CoreMatches(Materialize(heap, task),
                                                           field, value))))}})

\* The forEach of filterTasks over the entries of filters.customFields.
RECURSIVE HeapFilterCustomFields(_, _, _)
HeapFilterCustomFields(heap, results, entries) ==
    IF results = Throw \/ entries = <<>> THEN Memory(heap, results)
    ELSE LET field == entries[1][1]
             value == entries[1][2]
             elements == heap[results.v].v
         IN  IF \E i \in DOMAIN elements :
                    CustomThrows(Materialize(heap, elements[i]), field, value)
             THEN Memory(heap, Throw)
             ELSE Only({HeapFilterCustomFields(filtered.heap, filtered.val,
                                               Tail(entries)) :
                        filtered \in
                            {Alloc(heap,
                                   Arr(SelectSeq(elements,
                                           LAMBDA task :
                                               CustomMatches(Materialize(heap, task),
                                                             field, value))))}})

\* filterTasks(tasks, filters) on a heap; let results = [...tasks] is a new
\* array.  The filters are read only and given as a value.
HeapFilterTasks(heap, ts, filters) ==
    Only({Only({HeapFilterCustomFields(core.heap, core.val,
                                       Spread(GetProp(filters, K_customFields))) :
                core \in {HeapFilterCoreFields(results.heap, results.val,
                                               Spread(GetProp(filters, K_coreFields)))}}) :
          results \in {Alloc(heap, Arr(heap[ts.v].v))}})

-----------------------------------------------------------------------------
(* The data in memory: a file of one tag whose tasks come with and without *)
(* customFields, with and without subtasks, the subtasks with and without  *)
(* parentTaskId.                                                           *)

HeapSubtaskPool ==
    << Obj(<< <<K_id, Num(1)>>, <<K_title, TitleS>> >>),
       Obj(<< <<K_id, Num(2)>>, <<K_title, TitleS>>, <<K_parentTaskId, Num(1)>>,
              <<K_customFields, Obj(<< <<K_epic, Epic1>> >>)>> >>),
       Obj(<< <<K_id, Num(3)>>, <<K_title, TitleS>>, <<K_parentTaskId, Num(9)>>,
              <<K_customFields, EmptyObj>> >>) >>

HeapTaskBases ==
    << << <<K_id, Num(1)>>, <<K_title, TitleT>>, <<K_status, Pending>> >>,
       << <<K_id, Num(2)>>, <<K_title, TitleT>>, <<K_status, Done>>,
          <<K_customFields, Obj(<< <<K_epic, Epic1>> >>)>> >> >>

\* The file: { master: { tasks, metadata }, currentTag: 'master' }.
HeapData(ts) ==
    Obj(<< <<K_master, Obj(<< <<K_tasks, ts>>, <<K_metadata, StoredMetadata>> >>)>>,
           <<K_currentTag, Str(K_master)>> >>)

\* The memories: the file stored, its task array of at most MaxTasks tasks
\* with distinct ids, each without subtasks or with an array of at most
\* MaxSubtasks subtasks of the pool.
IsStoredFile(m) ==
    \E n \in 0..MaxTasks :
        \E pick \in [1..n -> DOMAIN HeapTaskBases], missing \in [1..n -> BOOLEAN] :
            /\ \A i, j \in 1..n : i # j => pick[i] # pick[j]
            /\ \E count \in [1..n -> 0..MaxSubtasks] :
                   /\ \A i \in 1..n : missing[i] => count[i] = 0
                   /\ \E entries \in [1..n -> [1..MaxSubtasks -> DOMAIN HeapSubtaskPool]] :
                          /\ \A i \in 1..n : \A j \in 1..MaxSubtasks :
                                 j > count[i] => entries[i][j] = 1
                          /\ m = Store(<<>>, HeapData(Arr([i \in 1..n |->
                                     IF missing[i] THEN Obj(HeapTaskBases[pick[i]])
                                     ELSE Obj(Append(HeapTaskBases[pick[i]],
                                              <<K_subtasks,
                                                Arr([j \in 1..count[i] |->
                                                     HeapSubtaskPool[entries[i][j]]])>>))])))

\* The parameters of the queries made on the tasks in memory.
HeapQueryPool ==
    { EmptyObj,
      Obj(<< <<K_status, Done>> >>),
      Obj(<< <<K_epic, Epic1>> >>),
      Obj(<< <<K_status, Pending>>, <<K_epic, Epic1>> >>) }

-----------------------------------------------------------------------------
(* The state machine of the memory: tasks is the memory that holds the     *)
(* file, and one transform is called on the data, on the data of its tag   *)
(* or on the tasks of the tag; out is the memory it leaves with the value  *)
(* it returns.                                                             *)

\* The references to the data, to the data of the tag and to its tasks.
DataRef == tasks.val
TagDataRef == HeapGet(tasks.heap, DataRef, K_master)
TasksRef == HeapGet(tasks.heap, TagDataRef, K_tasks)

InitHeap ==
    /\ IsStoredFile(tasks)
    /\ params = Undefined
    /\ arg = Undefined
    /\ out = Undefined
    /\ ops = <<>>

EnsureSubtaskParentIdsOnHeap ==
    /\ ops = <<>>
    /\ Call("ensureSubtaskParentIds", TasksRef,
            HeapEnsureSubtaskParentIds(tasks.heap, TasksRef))

EnsureCustomFieldsOnTasksOnHeap ==
    /\ ops = <<>>
    /\ Call("ensureCustomFieldsOnTasks", TasksRef,
            HeapEnsureCustomFieldsOnTasks(tasks.heap, TasksRef))

EnsureTagDataOnHeap ==
    /\ ops = <<>>
    /\ Call("ensureTagDataBackwardCompatibility", TagDataRef,
            HeapEnsureTagData(tasks.heap, TagDataRef))

\* ensureDataBackwardCompatibility(data), and on the legacy data
\* { tasks, metadata } ensureDataBackwardCompatibility(legacyData, true).
EnsureDataOnHeap ==
    /\ ops = <<>>
    /\ \/ Call("ensureDataBackwardCompatibility", DataRef,
               HeapEnsureData(tasks.heap, DataRef, False, IsoTimes[1], IsoTimes[1]))
       \/ Call("ensureDataBackwardCompatibility/isLegacyFormat:true", TagDataRef,
               HeapEnsureData(tasks.heap, TagDataRef, True, IsoTimes[1], IsoTimes[1]))

FilterTasksOnHeap ==
    /\ ops = <<>>
    /\ \E p \in HeapQueryPool :
           \E filtered \in {HeapFilterTasks(tasks.heap, TasksRef,
                                            translateQueryParameters(p))} :
               /\ filtered.val # Throw
               /\ Call("filterTasks", translateQueryParameters(p), filtered)

NextHeap ==
    \/ EnsureSubtaskParentIdsOnHeap
    \/ EnsureCustomFieldsOnTasksOnHeap
    \/ EnsureTagDataOnHeap
    \/ EnsureDataOnHeap
    \/ FilterTasksOnHeap

SpecHeap == InitHeap /\ [][NextHeap]_vars

-----------------------------------------------------------------------------
(* Vocabulary of the properties of the compatibility functions.            *)

EnsureIds == "ensureSubtaskParentIds"
EnsureCompat == "ensureTasksBackwardCompatibility"
Migrate == "migrateLegacyFormatWithCustomFields"

\* The last call was f and it returned.
Returned(f) == ops # <<>> /\ ops[Len(ops)] = f /\ out # Throw

\* The task array the last call was made on and the one it returned.
TasksIn == IF ops[Len(ops)] = Migrate THEN GetProp(arg, K_tasks).v ELSE arg.v
TasksOut ==
    IF ops[Len(ops)] = Migrate
    THEN GetProp(GetProp(out, K_master), K_tasks).v
    ELSE out.v

\* The entries of a task's subtasks array, none when it has no array.
SubtasksOf(task) ==
    IF IsArray(GetProp(task, K_subtasks)) THEN GetProp(task, K_subtasks).v ELSE <<>>

\* x.k when x is not null, undefined otherwise.
Field(x, k) == IF IsNullish(x) THEN Undefined ELSE GetProp(x, k)

\* The object o has the own properties of x other than k, unchanged.
KeepsFieldsBut(o, x, k) ==
    LET fields == Spread(x)
    IN  \A i \in DOMAIN fields :
            fields[i][1] # k => GetProp(o, fields[i][1]) = fields[i][2]

ParentIdCorrect(subtask, task) ==
    StrictEq(Field(subtask, K_parentTaskId), GetProp(task, K_id))

HasCustomFieldsMap(x) == Field(x, K_customFields).t = "obj"

\* customFields of the result o follows from that of the input x.
CustomFieldsNormalized(o, x) ==
    LET given == Field(x, K_customFields)
    IN  /\ HasCustomFieldsMap(o)
        /\ ~Truthy(given) => GetProp(o, K_customFields) = EmptyObj
        /\ Truthy(given) => GetProp(o, K_customFields) = given

-----------------------------------------------------------------------------
\* C1: the tasks ensureTasksBackwardCompatibility returns have the id of the
\* holding task as parentTaskId of every subtask (of every entry that was
\* an object), and a customFields map on every task and subtask.
C1_CompatFixesParentIdsAndCustomFields ==
    Returned(EnsureCompat) =>
        \A i \in DOMAIN TasksOut :
            /\ HasCustomFieldsMap(TasksOut[i])
            /\ \A j \in DOMAIN SubtasksOf(TasksOut[i]) :
                   SubtasksOf(TasksIn[i])[j].t = "obj" =>
                       /\ ParentIdCorrect(SubtasksOf(TasksOut[i])[j], TasksOut[i])
                       /\ HasCustomFieldsMap(SubtasksOf(TasksOut[i])[j])

\* C2: after ensureSubtaskParentIds every subtask has the id of the task
\* that holds it as parentTaskId; a subtask that had it keeps all its
\* fields, and one that had not keeps all its other fields.
C2_ParentIdConvergence ==
    Returned(EnsureIds) =>
        LET tasksIn == TasksIn
            tasksOut == TasksOut
        IN  /\ Len(tasksOut) = Len(tasksIn)
            /\ \A i \in DOMAIN tasksOut :
                   LET subtasksIn == SubtasksOf(tasksIn[i])
                       subtasksOut == SubtasksOf(tasksOut[i])
                   IN  /\ Len(subtasksOut) = Len(subtasksIn)
                       /\ \A j \in DOMAIN subtasksOut :
                              LET before == subtasksIn[j]
                                  after == subtasksOut[j]
                              IN  /\ ParentIdCorrect(after, tasksOut[i])
                                  /\ GetProp(tasksOut[i], K_id)
                                         = GetProp(tasksIn[i], K_id)
                                  /\ ParentIdCorrect(before, tasksIn[i])
                                         => after = before
                                  /\ KeepsFieldsBut(after, before, K_parentTaskId)

\* A call of ensureSubtaskParentIds on a task that holds a subtask with
\* the parentTaskId 999 and one with the right parentTaskId.
C2_Witness ==
    /\ Returned(EnsureIds)
    /\ \E i \in DOMAIN TasksIn :
           /\ \E j \in DOMAIN SubtasksOf(TasksIn[i]) :
                  Field(SubtasksOf(TasksIn[i])[j], K_parentTaskId) = Num(999)
           /\ \E j \in DOMAIN SubtasksOf(TasksIn[i]) :
                  ParentIdCorrect(SubtasksOf(TasksIn[i])[j], TasksIn[i])

\* C3: after ensureTasksBackwardCompatibility every task and subtask has a
\* customFields map: {} where the input had a falsy customFields, the
\* input's map where it had one.
C3_CustomFieldsNormalized ==
    Returned(EnsureCompat) =>
        LET tasksIn == TasksIn
            tasksOut == TasksOut
        IN  /\ Len(tasksOut) = Len(tasksIn)
            /\ \A i \in DOMAIN tasksOut :
                   LET subtasksIn == SubtasksOf(tasksIn[i])
                       subtasksOut == SubtasksOf(tasksOut[i])
                   IN  /\ CustomFieldsNormalized(tasksOut[i], tasksIn[i])
                       /\ Len(subtasksOut) = Len(subtasksIn)
                       /\ \A j \in DOMAIN subtasksOut :
                              CustomFieldsNormalized(subtasksOut[j], subtasksIn[j])

\* A call on a task without customFields that holds a subtask with a null
\* customFields and a subtask with a custom field.
C3_Witness ==
    /\ Returned(EnsureCompat)
    /\ \E i \in DOMAIN TasksIn :
           /\ ~HasOwn(TasksIn[i], K_customFields)
           /\ \E j \in DOMAIN SubtasksOf(TasksIn[i]) :
                  Field(SubtasksOf(TasksIn[i])[j], K_customFields) = Null
           /\ \E j \in DOMAIN SubtasksOf(TasksIn[i]) :
                  /\ HasCustomFieldsMap(SubtasksOf(TasksIn[i])[j])
                  /\ Field(SubtasksOf(TasksIn[i])[j], K_customFields) # EmptyObj

\* C4: ensureTasksBackwardCompatibility applied to its own result returns
\* that result.
C4_CompatIdempotent ==
    (Returned(EnsureCompat) /\ Len(ops) >= 2 /\ ops[Len(ops) - 1] = EnsureCompat)
        => out = arg

\* A second application, after a first one that changed tasks and subtasks.
C4_Witness ==
    /\ Returned(EnsureCompat)
    /\ ops = <<EnsureCompat, EnsureCompat>>
    /\ \E i \in DOMAIN tasks.v :
           /\ arg.v[i] # tasks.v[i]
           /\ \E j \in DOMAIN SubtasksOf(tasks.v[i]) :
                  SubtasksOf(arg.v[i])[j] # SubtasksOf(tasks.v[i])[j]

\* C5: ensureSubtaskParentIds, ensureTasksBackwardCompatibility and
\* migrateLegacyFormatWithCustomFields return as many tasks as they are
\* given, with the same ids at the same positions, each with as many
\* subtasks as it had, with the same ids at the same positions.
C5_OrderPreserved ==
    (Returned(EnsureIds) \/ Returned(EnsureCompat) \/ Returned(Migrate)) =>
        LET tasksIn == TasksIn
            tasksOut == TasksOut
        IN  /\ Len(tasksOut) = Len(tasksIn)
            /\ \A i \in DOMAIN tasksOut :
                   LET subtasksIn == SubtasksOf(tasksIn[i])
                       subtasksOut == SubtasksOf(tasksOut[i])
                   IN  /\ GetProp(tasksOut[i], K_id) = GetProp(tasksIn[i], K_id)
                       /\ Len(subtasksOut) = Len(subtasksIn)
                       /\ \A j \in DOMAIN subtasksOut :
                              Field(subtasksOut[j], K_id) = Field(subtasksIn[j], K_id)

\* A migration of two tasks with different ids, one holding two subtasks
\* whose ids are not in increasing order.
C5_Witness ==
    /\ Returned(Migrate)
    /\ Len(TasksIn) = 2
    /\ GetProp(TasksIn[1], K_id) = Num(5)
    /\ GetProp(TasksIn[2], K_id) = Num(1)
    /\ \E i \in DOMAIN TasksIn :
           /\ Len(SubtasksOf(TasksIn[i])) = 2
           /\ Field(SubtasksOf(TasksIn[i])[1], K_id) = Num(3)
           /\ Field(SubtasksOf(TasksIn[i])[2], K_id) = Num(1)

\* C6: a null or non-object subtask entry does not make
\* ensureSubtaskParentIds or ensureTasksBackwardCompatibility throw; it
\* stays at its position unmodified.
C6_MalformedEntriesTolerated ==
    (ops # <<>> /\ ops[Len(ops)] \in {EnsureIds, EnsureCompat}) =>
        /\ out # Throw
        /\ \A i \in DOMAIN TasksIn : \A j \in DOMAIN SubtasksOf(TasksIn[i]) :
               SubtasksOf(TasksIn[i])[j].t # "obj" =>
                   /\ j \in DOMAIN SubtasksOf(TasksOut[i])
                   /\ SubtasksOf(TasksOut[i])[j] = SubtasksOf(TasksIn[i])[j]

-----------------------------------------------------------------------------
(* Vocabulary of the properties of a query.                                *)

Translate == "translateQueryParameters"
Filter == "filterTasks"
Query == "queryTasks"

\* out is what translateQueryParameters(params) returned.
Translated == ops = <<Translate>>

\* out is what filtering tasks by params returned.
QueryDone == ops \in {<<Translate, Filter>>, <<Query>>}

\* The parameter object of the entries es, and es without its i-th entry or
\* reordered by the permutation p of its positions.
ParamsOf(es) == Obj(es)
Without(es, i) == SubSeq(es, 1, i - 1) \o SubSeq(es, i + 1, Len(es))
Reordered(es, p) == [i \in DOMAIN es |-> es[p[i]]]

\* The i-th parameter is in exactly one of the two maps of out, in coreFields
\* iff its key is a core name, and its value there is the value given.
RoutedOnce(i) ==
    LET key == params.v[i][1]
        value == params.v[i][2]
        coreFields == GetProp(out, K_coreFields)
        customFields == GetProp(out, K_customFields)
    IN  /\ HasOwn(coreFields, key) # HasOwn(customFields, key)
        /\ HasOwn(coreFields, key) <=> key \in {CORE_FIELDS[n] : n \in DOMAIN CORE_FIELDS}
        /\ HasOwn(coreFields, key) => GetProp(coreFields, key) = value
        /\ HasOwn(customFields, key) => GetProp(customFields, key) = value

\* The query is one custom field filter with a comma-separated value.
CommaQuery ==
    /\ Len(params.v) = 1
    /\ ~Includes(CORE_FIELDS, params.v[1][1])
    /\ params.v[1][1] # K_proto
    /\ params.v[1][2].t = "str"
    /\ StrIncludes(params.v[1][2].v, <<",">>)

\* The values v1, ..., vn a comma-separated value lists.
ListedValues(value) ==
    LET parts == Split(value.v, ",") IN [i \in DOMAIN parts |-> Trim(parts[i])]

\* task is in the result of one of the single-value filters {field: vi}.
InUnionOfSingleValueFilters(task) ==
    \E i \in DOMAIN ListedValues(params.v[1][2]) :
        Includes(filterTasks(tasks, translateQueryParameters(
                     ParamsOf(<< <<params.v[1][1], Str(ListedValues(params.v[1][2])[i])>> >>))).v,
                 task)

\* The custom field of task the query names is a non-empty string equal to
\* one of the listed values.
EqualsListedValue(task) ==
    LET fieldValue == GetProp(GetProp(task, K_customFields), params.v[1][1])
    IN  /\ fieldValue.t = "str"
        /\ fieldValue.v # <<>>
        /\ Includes(ListedValues(params.v[1][2]), fieldValue.v)

\* Every value of params is a string.
StringParams == \A i \in DOMAIN params.v : params.v[i][2].t = "str"

\* The filters holding the i-th core (custom) filter of filters alone.
OnlyCore(filters, i) ==
    Obj(<< <<K_coreFields, Obj(<<GetProp(filters, K_coreFields).v[i]>>)>>,
           <<K_customFields, EmptyObj>> >>)
OnlyCustom(filters, i) ==
    Obj(<< <<K_coreFields, EmptyObj>>,
           <<K_customFields, Obj(<<GetProp(filters, K_customFields).v[i]>>)>> >>)

\* task passes each filter of filters applied alone to tasks.
SatisfiesEvery(task, filters) ==
    /\ \A i \in DOMAIN GetProp(filters, K_coreFields).v :
           Includes(filterTasks(tasks, OnlyCore(filters, i)).v, task)
    /\ \A i \in DOMAIN GetProp(filters, K_customFields).v :
           Includes(filterTasks(tasks, OnlyCustom(filters, i)).v, task)

-----------------------------------------------------------------------------
(* C8.  translateQueryParameters puts every key of params in exactly one   *)
(* of coreFields and customFields, never in both and never in neither: in  *)
(* coreFields iff the key is, case-sensitively, one of the 15 core names;  *)
(* the value stored under the key is the value of params unmodified, null, *)
(* undefined and the empty string included.                                *)
C8_EveryKeyRoutedOnce ==
    Translated =>
        /\ Cardinality({CORE_FIELDS[n] : n \in DOMAIN CORE_FIELDS}) = 15
        /\ \A i \in DOMAIN params.v : RoutedOnce(i)

(* C8, for the keys other than '__proto__': each is in exactly one of the  *)
(* two maps, by the rule above, with its value unmodified, and the maps    *)
(* hold no other key.                                                      *)
C8_OrdinaryKeysRoutedOnce ==
    Translated =>
        /\ \A i \in DOMAIN params.v : params.v[i][1] # K_proto => RoutedOnce(i)
        /\ \A k \in {Keys(GetProp(out, K_coreFields))[n] :
                         n \in DOMAIN GetProp(out, K_coreFields).v}
                    \cup {Keys(GetProp(out, K_customFields))[n] :
                              n \in DOMAIN GetProp(out, K_customFields).v} :
               HasOwn(params, k)

\* A core name, a name that differs from a core name by case and a null
\* value have been routed, the first to coreFields and the second to
\* customFields.
C8_OrdinaryKeysWitness ==
    /\ Translated
    /\ HasOwn(GetProp(out, K_coreFields), K_status)
    /\ HasOwn(GetProp(out, K_customFields), K_Status)
    /\ ~HasOwn(params, K_proto)

(* C9.  For a custom field filter whose value is the comma-separated list  *)
(* v1,...,vn, filterTasks returns exactly the union of the results of the  *)
(* n single-value filters {field: vi}, in input order.                     *)
C9_CommaIsUnionOfSingleValues ==
    QueryDone /\ CommaQuery =>
        out = Arr(SelectSeq(tasks.v, InUnionOfSingleValueFilters))

(* C9, as the code has it.  For a custom field filter whose value is the   *)
(* comma-separated list v1,...,vn, filterTasks returns exactly the tasks,  *)
(* in input order, whose value of the field is non-empty and equal to one  *)
(* of the trimmed vi; each of them is in the union of the results of the   *)
(* single-value filters {field: vi}.                                       *)
C9_CommaIsExactMembership ==
    QueryDone /\ CommaQuery =>
        /\ out = Arr(SelectSeq(tasks.v, EqualsListedValue))
        /\ \A j \in DOMAIN out.v : InUnionOfSingleValueFilters(out.v[j])

\* A comma-separated filter has kept a task whose value equals a listed
\* value written after a space, and dropped a task a single-value filter
\* keeps.
C9_Witness ==
    /\ QueryDone
    /\ CommaQuery
    /\ Len(tasks.v) = 2
    /\ Len(out.v) = 1
    /\ GetProp(GetProp(out.v[1], K_customFields), params.v[1][1]) = Epic5
    /\ \A j \in DOMAIN tasks.v : InUnionOfSingleValueFilters(tasks.v[j])

-----------------------------------------------------------------------------
(* Vocabulary of the properties of the two filterTasks.                    *)

FilterScripts == "scripts/filterTasks"

\* out is what one of the filterTasks, or queryTasks, made of tasks.
Filtered == ops # <<>> /\ ops[Len(ops)] \in {Filter, FilterScripts, Query}

\* The custom field filters the parameters translate to.
CustomFilters == Spread(GetProp(translateQueryParameters(params), K_customFields))
CoreFilters == Spread(GetProp(translateQueryParameters(params), K_coreFields))

\* task has no customFields map, or no value or a falsy one under field.
LacksField(task, field) ==
    \/ ~Truthy(GetProp(task, K_customFields))
    \/ ~Truthy(GetProp(GetProp(task, K_customFields), field))

\* The query is one status filter with a string value.
StatusQuery ==
    /\ Len(params.v) = 1
    /\ params.v[1][1] = K_status
    /\ params.v[1][2].t = "str"

\* The status of task is, ignoring case, the value of the status filter or,
\* when that holds a comma, one of its trimmed parts.
StatusEqualsIgnoringCase(task) ==
    LET status == ToLowerCase(GetProp(task, K_status).v)
        value == params.v[1][2].v
    IN  IF StrIncludes(value, <<",">>)
        THEN \E i \in DOMAIN Split(value, ",") :
                 ToLowerCase(Trim(Split(value, ",")[i])) = status
        ELSE ToLowerCase(value) = status

(* C11.  A task without customFields map, without the filtered key, or     *)
(* with a falsy value under it (null, undefined, "") is in the result of   *)
(* no custom field filter on that key, whatever the filter value, ""       *)
(* included; the filter value is not even read for such a task.            *)
C11_FalsyFieldNeverMatches ==
    Filtered =>
        LET customFilters == CustomFilters
        IN  /\ out # Throw =>
                   \A n \in DOMAIN customFilters, i \in DOMAIN tasks.v :
                       LacksField(tasks.v[i], customFilters[n][1]) =>
                           ~Includes(out.v, tasks.v[i])
            /\ ( /\ customFilters # <<>>
                 /\ CoreFilters = <<>>
                 /\ \A i \in DOMAIN tasks.v : LacksField(tasks.v[i], customFilters[1][1]) )
                   => out = EmptyArr

\* The filter {epic: ""} has dropped a task whose epic is "" and kept a task
\* whose epic is not empty.
C11_Witness ==
    /\ Filtered
    /\ params.v = << <<K_epic, Str(<<>>)>> >>
    /\ Len(tasks.v) = 2
    /\ \E i \in DOMAIN tasks.v :
           GetProp(GetProp(tasks.v[i], K_customFields), K_epic) = Str(<<>>)
    /\ out # Throw
    /\ Len(out.v) = 1

(* C12.  filterTasks compares the status ignoring case: with a comma in    *)
(* the value a task matches iff its status is one of the trimmed parts,    *)
(* without one iff its status equals the value; there is no substring      *)
(* matching.                                                               *)
C12_StatusComparedIgnoringCase ==
    (Filtered /\ StatusQuery) =>
        out = Arr(SelectSeq(tasks.v, StatusEqualsIgnoringCase))

(* C12, for the filterTasks of src/unnamed/part_003 and its queryTasks     *)
(* alone.                                                                  *)
C12_DocumentedCopyIgnoresCase ==
    (QueryDone /\ StatusQuery) =>
        out = Arr(SelectSeq(tasks.v, StatusEqualsIgnoringCase))

\* The status filter 'Done' has kept a task whose status is 'done' and
\* dropped a pending one.
C12_DocumentedCopyWitness ==
    /\ QueryDone
    /\ params.v = << <<K_status, Str(<<"D", "o", "n", "e">>)>> >>
    /\ Len(tasks.v) = 2
    /\ Len(out.v) = 1
    /\ GetProp(out.v[1], K_status) = Done

(* C13.  The result of filterTasks and of queryTasks is a subsequence of   *)
(* the tasks given: every task of it is one of them, none twice, in the    *)
(* order they were given; without filters it is the tasks given.           *)
C13_ResultIsSubsequence ==
    (Filtered /\ out # Throw) =>
        /\ out = Arr(SelectSeq(tasks.v, LAMBDA task : Includes(out.v, task)))
        /\ (CoreFilters = <<>> /\ CustomFilters = <<>>) => out = tasks

\* A filter has kept two tasks given in decreasing order of id.
C13_Witness ==
    /\ Filtered
    /\ CoreFilters # <<>>
    /\ out # Throw
    /\ Len(out.v) = 2
    /\ GetProp(out.v[1], K_id) = Num(3)
    /\ GetProp(out.v[2], K_id) = Num(1)

-----------------------------------------------------------------------------
(* Vocabulary of the properties of the field names.                        *)

Validated == ops = <<"validateFieldName">>
Suggested == ops = <<"suggestFieldName">>

\* The names reserved for the naming of custom fields.
ReservedNames ==
    {K_id, K_title, K_description, K_details, K_testStrategy, K_status,
     K_priority, K_dependencies, K_subtasks, K_customFields}

Reserved == Str(<<"r", "e", "s", "e", "r", "v", "e", "d">>)
Format == Str(<<"f", "o", "r", "m", "a", "t">>)

\* The characters of [A-Za-z_-] and of [A-Za-z0-9_-].
NameStart ==
    {"A", "B", "C", "D", "E", "F", "G", "H", "I", "J", "K", "L", "M", "N", "O",
     "P", "Q", "R", "S", "T", "U", "V", "W", "X", "Y", "Z", "a", "b", "c", "d",
     "e", "f", "g", "h", "i", "j", "k", "l", "m", "n", "o", "p", "q", "r", "s",
     "t", "u", "v", "w", "x", "y", "z", "_", "-"}
NameRest == NameStart \cup {"0", "1", "2", "3", "4", "5", "6", "7", "8", "9"}

\* name matches ^[A-Za-z_-][A-Za-z0-9_-]*$.
WellFormed(name) ==
    /\ Len(name) >= 1
    /\ name[1] \in NameStart
    /\ \A i \in DOMAIN name : name[i] \in NameRest

\* The lower-cased input and fields of a suggestion, and the positions of
\* the fields each tier of the cascade accepts.
SuggestInput == ToLowerCase(params.v[1].v)
SuggestField(i) == ToLowerCase(params.v[2].v[i].v)
ExactTier == {i \in DOMAIN params.v[2].v : SuggestField(i) = SuggestInput}
PrefixTier == {i \in DOMAIN params.v[2].v : StartsWith(SuggestField(i), SuggestInput)}
ContainsTier == {i \in DOMAIN params.v[2].v : StrIncludes(SuggestField(i), SuggestInput)}
\* The positions of the fields with their Levenshtein distances from the
\* input, and those at distance 2 or less.
Distances ==
    {<<i, levenshteinDistance(SuggestInput, SuggestField(i))>> : i \in DOMAIN params.v[2].v}
CloseDistances == {d \in Distances : d[2] <= 2}
CloseTier == {d[1] : d \in CloseDistances}

\* The first position of a non-empty set of positions.
FirstOf(positions) == CHOOSE i \in positions : \A j \in positions : i <= j

\* The position at the least of the distances, the first of them.
ClosestOf(distances) ==
    (CHOOSE d \in distances : \A e \in distances :
         d[2] < e[2] \/ (d[2] = e[2] /\ d[1] <= e[1]))[1]

(* C14.  For every reserved name validateFieldName returns valid false     *)
(* with the reason 'reserved'.                                             *)
C14_ReservedNamesRejected ==
    (Validated /\ arg.v \in ReservedNames) =>
        /\ GetProp(out, K_valid) = False
        /\ GetProp(out, K_reason) = Reserved

\* validateFieldName has rejected the name customFields as reserved.
C14_Witness ==
    /\ Validated
    /\ arg = Str(K_customFields)
    /\ GetProp(out, K_reason) = Reserved

C16_SuggestionCascade ==
    Suggested =>
        LET exact == ExactTier
            prefix == PrefixTier
            contains == ContainsTier
            close == CloseDistances
        IN  out = IF exact # {} THEN params.v[2].v[FirstOf(exact)]
                  ELSE IF prefix # {} THEN params.v[2].v[FirstOf(prefix)]
                  ELSE IF contains # {} THEN params.v[2].v[FirstOf(contains)]
                  ELSE IF close # {} THEN params.v[2].v[ClosestOf(close)]
                  ELSE Null

\* A field equal to the input has been returned although the input is a
\* prefix of a field that comes before it.
C16_Witness ==
    /\ Suggested
    /\ ExactTier # {}
    /\ out = params.v[2].v[FirstOf(ExactTier)]
    /\ FirstOf(PrefixTier) < FirstOf(ExactTier)

\* The second of two fields has been returned for being closer to the
\* input than the first, both being at distance 2 or less.
C16_CloseWitness ==
    /\ Suggested
    /\ ContainsTier = {}
    /\ CloseTier = {1, 2}
    /\ out = params.v[2].v[2]

-----------------------------------------------------------------------------
(* Vocabulary of the properties of the search keys.                        *)

Generated == ops = <<"generateSearchKeys">>
Weighed == ops = <<"getWeightForField">>

\* The names of the custom fields of a task or subtask.
CustomNamesOf(x) ==
    IF GetProp(x, K_customFields).t = "obj"
    THEN {GetProp(x, K_customFields).v[i][1] : i \in DOMAIN GetProp(x, K_customFields).v}
    ELSE {}

\* The names of the custom fields found on the tasks and on their subtasks.
NamesFound ==
    UNION {CustomNamesOf(tasks.v[i]) \cup
               (IF GetProp(tasks.v[i], K_subtasks).t = "arr"
                THEN UNION {CustomNamesOf(GetProp(tasks.v[i], K_subtasks).v[j]) :
                                j \in DOMAIN GetProp(tasks.v[i], K_subtasks).v}
                ELSE {}) : i \in DOMAIN tasks.v}

\* The name of the key at position i of the keys returned.
KeyName(i) == GetProp(out.v[i], K_name).v

\* The keys returned are those of core, a sequence of names and weights in
\* tenths, followed by one key 'customFields.<name>' for each name found.
CoreKeysThenCustomKeys(core) ==
    /\ Len(out.v) = Len(core) + Cardinality(NamesFound)
    /\ \A i \in DOMAIN core :
           out.v[i] = Obj(<< <<K_name, Str(core[i][1])>>, <<K_weight, Num(core[i][2])>> >>)
    /\ \A name \in NamesFound :
           \E i \in DOMAIN out.v :
               i > Len(core) /\ KeyName(i) = K_customFields \o <<".">> \o name

\* The curated weights, in tenths.
CuratedWeights ==
    { <<K_title, 20>>, <<K_description, 15>>, <<K_details, 10>>,
      <<K_dependencyTitles, 5>>, <<K_epic, 18>>, <<K_component, 15>>,
      <<K_taskType, 16>>, <<K_assignee, 12>>, <<K_sprint, 14>> }

\* The weight returned is the curated weight of the name, or 1.0 when the
\* name has none.
CuratedOrDefault ==
    out = IF \E c \in CuratedWeights : c[1] = params.v
          THEN Num((CHOOSE c \in CuratedWeights : c[1] = params.v)[2])
          ELSE Num(10)

C17_NoCustomFieldsWitness ==
    /\ Generated
    /\ Len(tasks.v) = MaxTasks
    /\ NamesFound = {}
    /\ Len(out.v) = 4

\* A name found on a task and on a subtask of another task has one key.
C17_SharedNameWitness ==
    /\ Generated
    /\ \E i, j \in DOMAIN tasks.v :
           /\ i # j
           /\ K_component \in CustomNamesOf(tasks.v[i])
           /\ GetProp(tasks.v[j], K_subtasks).t = "arr"
           /\ \E k \in DOMAIN GetProp(tasks.v[j], K_subtasks).v :
                  K_component \in CustomNamesOf(GetProp(tasks.v[j], K_subtasks).v[k])
    /\ Cardinality({i \in DOMAIN out.v :
                       KeyName(i) = K_customFields \o <<".">> \o K_component}) = 1

(* C18.  getWeightForField returns a number for every field name: the      *)
(* curated weight of title, description, details, dependencyTitles, epic,  *)
(* component, taskType, assignee and sprint, and 1.0 for every other name. *)
C18_WeightIsCuratedOrDefault == Weighed => CuratedOrDefault

\* For every name that is not the name of a member of Object.prototype the
\* weight is the curated weight or 1.0.
C18_OwnNamesWeighted ==
    (Weighed /\ params.v \notin ObjectPrototypeKeys) => CuratedOrDefault

\* The default weight has been returned for a name of the tests.
C18_OwnNamesWitness ==
    /\ Weighed
    /\ params.v \in WeightExamples
    /\ out = Num(10)

-----------------------------------------------------------------------------
(* Vocabulary of the properties of the validation.                         *)

Reported == ops = <<"createSubtaskIntegrityReport">> /\ out # Throw
FixValidated == ops = <<"validateSubtaskStructure">> /\ out # Throw

\* The positions <<i, j>> of the subtasks: subtask j of task i.
SubtaskSlots ==
    IF tasks.t # "arr" THEN {}
    ELSE UNION {{<<i, j>> : j \in IF GetProp(tasks.v[i], K_subtasks).t = "arr"
                                  THEN DOMAIN GetProp(tasks.v[i], K_subtasks).v
                                  ELSE {}} : i \in DOMAIN tasks.v}

SubtaskAt(slot) == GetProp(tasks.v[slot[1]], K_subtasks).v[slot[2]]

\* The subtasks whose parentTaskId is falsy or differs from the id of the
\* task that holds them.
SlotsWithIssues ==
    {slot \in SubtaskSlots :
        \/ ~Truthy(GetProp(SubtaskAt(slot), K_parentTaskId))
        \/ GetProp(SubtaskAt(slot), K_parentTaskId) # GetProp(tasks.v[slot[1]], K_id)}

Summary(k) == GetProp(GetProp(out, K_summary), k)

\* The percentage of n tenths, written with one decimal.
OneDecimalPercent(n) ==
    Str(NumToString(n \div 10) \o <<".">> \o NumToString(n % 10) \o <<"%">>)

\* n tenths is num / den * 100 rounded to one decimal, a half rounded up.
RoundsToTenths(n, num, den) ==
    /\ 2000 * num - den < 2 * den * n
    /\ 2 * den * n <= 2000 * num + den

\* The messages of the issues a validation returned.
IssuesOut == GetProp(out, K_issues).v

\* No issue returned is about a parentTaskId, and isValid says whether
\* there is no issue.
NoParentIdIssue ==
    /\ \A i \in DOMAIN IssuesOut :
           /\ ~StrIncludes(IssuesOut[i].v, M_MissingParentTaskId)
           /\ ~StrIncludes(IssuesOut[i].v, M_IncorrectParentTaskId)
    /\ GetProp(out, K_isValid) = True <=> IssuesOut = <<>>

(* C19.  createSubtaskIntegrityReport counts as subtasksWithIssues the     *)
(* subtasks whose parentTaskId is falsy or differs from the id of their    *)
(* task, so 0 <= subtasksWithIssues <= totalSubtasks; integrityScore is    *)
(* '100%' when totalSubtasks is 0 and otherwise                            *)
(* (totalSubtasks - subtasksWithIssues) / totalSubtasks * 100 with one     *)
(* decimal and the suffix '%'.                                             *)
C19_IntegrityScore ==
    Reported =>
        LET total == Cardinality(SubtaskSlots)
            withIssues == Cardinality(SlotsWithIssues)
        IN  /\ Summary(K_totalSubtasks) = Num(total)
            /\ Summary(K_subtasksWithIssues) = Num(withIssues)
            /\ 0 <= Summary(K_subtasksWithIssues).v
            /\ Summary(K_subtasksWithIssues).v <= Summary(K_totalSubtasks).v
            /\ IF total = 0
               THEN Summary(K_integrityScore) = Str(<<"1", "0", "0", "%">>)
               ELSE \E n \in 0..1000 :
                        /\ RoundsToTenths(n, total - withIssues, total)
                        /\ Summary(K_integrityScore) = OneDecimalPercent(n)

\* A report on 4 subtasks, 2 of them with issues, has the score '50.0%'.
C19_Witness ==
    /\ Reported
    /\ Cardinality(SubtaskSlots) = 4
    /\ Cardinality(SlotsWithIssues) = 2
    /\ Summary(K_integrityScore) = Str(<<"5", "0", ".", "0", "%">>)

\* A report on subtasks without issues has the score '100.0%'.
C19_NoIssuesWitness ==
    /\ Reported
    /\ Cardinality(SubtaskSlots) > 0
    /\ SlotsWithIssues = {}
    /\ Summary(K_integrityScore) = Str(<<"1", "0", "0", ".", "0", "%">>)

\* A report on tasks without subtasks has the score '100%'.
C19_NoSubtasksWitness ==
    /\ Reported
    /\ Len(tasks.v) = MaxTasks
    /\ SubtaskSlots = {}
    /\ Summary(K_integrityScore) = Str(<<"1", "0", "0", "%">>)

\* A report on 3 subtasks, 1 of them with issues, has the score '66.7%'.
C19_RoundedWitness ==
    /\ Reported
    /\ Cardinality(SubtaskSlots) = 3
    /\ Cardinality(SlotsWithIssues) = 1
    /\ Summary(K_integrityScore) = Str(<<"6", "6", ".", "7", "%">>)

(* C20.  validateSubtaskStructure with the default fixIssues = true        *)
(* returns, for every array of tasks, issues that hold no 'missing         *)
(* parentTaskId' and no 'has incorrect parentTaskId' message, and isValid  *)
(* is true iff the issues are empty.                                       *)
C20_FixLeavesNoParentIdIssue == FixValidated => NoParentIdIssue

\* For tasks whose ids are truthy, no issue returned under fixIssues = true
\* is about a parentTaskId.
C20_TruthyIdsFixLeavesNoParentIdIssue ==
    (/\ FixValidated
     /\ tasks.t = "arr"
     /\ \A i \in DOMAIN tasks.v : Truthy(GetProp(tasks.v[i], K_id)))
        => NoParentIdIssue

\* A subtask without parentTaskId and one with a wrong parentTaskId under
\* task 1 have been fixed, and no issue is returned.
C20_TruthyIdsWitness ==
    /\ FixValidated
    /\ tasks.t = "arr"
    /\ Len(tasks.v) = 1
    /\ GetProp(tasks.v[1], K_id) = Num(1)
    /\ Cardinality(SlotsWithIssues) = 2
    /\ IssuesOut = <<>>
    /\ GetProp(out, K_isValid) = True

-----------------------------------------------------------------------------
(* Vocabulary of the properties of the data of a file.                     *)

EnsureData == "ensureDataBackwardCompatibility"
MigrateData == "ensureDataBackwardCompatibility/isLegacyFormat:true"
IsLegacy == "isLegacyFormat"

\* The last call was ensureDataBackwardCompatibility(data, false).
DataEnsured == ops # <<>> /\ ops[Len(ops)] = EnsureData

\* A value that is an object containing a tasks array.
HoldsTasksArray(value) == value.t = "obj" /\ IsArray(GetProp(value, K_tasks))

\* The result has the top-level keys of data; under each, the value of
\* data after tag-data compatibility when it holds a tasks array, the
\* value of data otherwise.
KeysKeptAndTagsProcessed(result, data) ==
    /\ result.t = "obj"
    /\ Keys(result) = Keys(data)
    /\ \A i \in DOMAIN data.v :
           LET tagName == data.v[i][1]
               value == data.v[i][2]
           IN  GetProp(result, tagName) =
                   IF HoldsTasksArray(value)
                   THEN ensureTagDataBackwardCompatibility(value)
                   ELSE value

\* A legacy object: a tasks array at the top level, no nested object that
\* holds a tasks array, no raw tagged data attached by a read.
LegacyObject(x) ==
    /\ x.t = "obj"
    /\ IsArray(GetProp(x, K_tasks))
    /\ ~HasOwn(x, K_rawTaggedData)
    /\ \A i \in DOMAIN x.v : ~HoldsTasksArray(x.v[i][2])

\* The positions of the migrations among the calls made.
Migrations == {i \in DOMAIN ops : ops[i] = MigrateData}

-----------------------------------------------------------------------------
\* C21: ensureDataBackwardCompatibility(data, false) returns null or
\* undefined data as it is; of an object it returns, without throwing, an
\* object with the same top-level keys, every value that holds a tasks
\* array processed as the data of a tag and every other value unchanged.
C21_KeysKeptValuesPassedThrough ==
    DataEnsured =>
        IF IsNullish(arg) THEN out = arg
        ELSE out # Throw /\ KeysKeptAndTagsProcessed(out, arg)

\* C21, for the calls that return, on data without the key '__proto__':
\* the keys are kept and the values processed or passed through.
C21_ReturnedDataKeepsKeys ==
    (DataEnsured /\ out # Throw /\ ~HasOwn(arg, K_proto)) =>
        IF IsNullish(arg) THEN out = arg
        ELSE KeysKeptAndTagsProcessed(out, arg)

\* A call on the data of a tag with legacy tasks beside a string and a
\* number: the tasks of the tag have been given their customFields.
C21_ReturnedDataWitness ==
    /\ ops = <<EnsureData>>
    /\ out # Throw
    /\ arg.t = "obj"
    /\ Len(arg.v) = 3
    /\ GetProp(arg, K_description) = Str(<<"d">>)
    /\ GetProp(arg, K_version) = Num(1)
    /\ HasOwn(arg, K_master)
    /\ GetProp(out, K_master) # GetProp(arg, K_master)

\* C29: isLegacyFormat is true of every legacy object and false of what
\* its migration returns, so no data is migrated twice.
C29_MigrationConverges ==
    /\ (ops = <<IsLegacy>> /\ LegacyObject(arg)) => out = True
    /\ (Len(ops) >= 2 /\ ops[Len(ops)] = IsLegacy /\ ops[Len(ops) - 1] = MigrateData)
           => out = False
    /\ Cardinality(Migrations) <= 1

\* A legacy object with metadata and a string sibling has been detected,
\* migrated (its task has got its customFields), and detected again.
C29_Witness ==
    /\ ops = <<IsLegacy, MigrateData, IsLegacy>>
    /\ LegacyObject(tasks)
    /\ HasOwn(tasks, K_metadata)
    /\ HasOwn(tasks, K_description)
    /\ GetProp(tasks, K_tasks) = LegacyTasks
    /\ GetProp(GetProp(arg, K_master), K_tasks) # LegacyTasks
    /\ GetProp(GetProp(arg, K_master), K_metadata) = StoredMetadata
    /\ out = False

-----------------------------------------------------------------------------
(* Vocabulary of the properties of a search.                               *)

Found == ops = <<"findRelevantTasks">>

PromptWordsOut == GetProp(out, K_promptWords).v
SearchedOut == GetProp(out, K_searched).v
MergedOut == GetProp(out, K_mergedResults).v

\* The id of the task of a result.
ResultId(result) == GetProp(GetProp(result, K_item), K_id)

\* The prompt in lower case, and its positions that hold a character of a
\* word: a letter, a digit, '_' or '-'.
LoweredPrompt == ToLowerCase(arg.v)
InWord(i) == i \in DOMAIN LoweredPrompt /\ LoweredPrompt[i] \in WordChars \cup {"-"}

\* The word of the prompt that starts at position i: the characters up to
\* the next position that holds no character of a word.
WordEnd(i) == CHOOSE k \in i..Len(LoweredPrompt) : ~InWord(k + 1) /\ \A j \in i..k : InWord(j)
WordAt(i) == SubSeq(LoweredPrompt, i, WordEnd(i))

\* The positions at which a word of more than n characters starts.
WordStarts(n) ==
    {i \in DOMAIN LoweredPrompt : InWord(i) /\ ~InWord(i - 1) /\ Len(WordAt(i)) > n}

\* words is the words of the prompt of more than n characters, in the
\* order of the prompt.
IsWordsLongerThan(words, n) ==
    /\ Len(words) = Cardinality(WordStarts(n))
    /\ \E start \in [DOMAIN words -> WordStarts(n)] :
           /\ \A i, j \in DOMAIN words : i < j => start[i] < start[j]
           /\ \A i \in DOMAIN words : words[i] = Str(WordAt(start[i]))

\* The merged results: those of the whole prompt first, each task at most
\* once, every task a search has found, and after the results of the
\* prompt only results of the searches of words.
MergedOncePerTask ==
    LET fuse == GetProp(params, K_fuse)
        searchable == prepareSearchableTasks(tasks)
        fuzzyResults == FuseSearch(fuse, searchable, arg)
        wordSearches == {q \in DOMAIN SearchedOut : q > 1}
    IN  /\ SubSeq(MergedOut, 1, Len(fuzzyResults)) = fuzzyResults
        /\ \A i, j \in DOMAIN MergedOut :
               i # j => ~StrictEq(ResultId(MergedOut[i]), ResultId(MergedOut[j]))
        /\ \A q \in DOMAIN SearchedOut :
               LET results == FuseSearch(fuse, searchable, SearchedOut[q])
               IN  \A r \in DOMAIN results :
                       \E i \in DOMAIN MergedOut :
                           StrictEq(ResultId(MergedOut[i]), ResultId(results[r]))
        /\ \A i \in (Len(fuzzyResults) + 1)..Len(MergedOut) :
               \E q \in wordSearches :
                   LET results == FuseSearch(fuse, searchable, SearchedOut[q])
                   IN  \E r \in DOMAIN results : results[r] = MergedOut[i]

-----------------------------------------------------------------------------
\* C26: findRelevantTasks extracts the words of the prompt of more than 3
\* characters and makes one search for each of them after the search of
\* the whole prompt; the merged results hold each task id at most once, a
\* word result being added only when its id is not yet there.
C26_OneSearchPerPromptWord ==
    Found =>
        /\ IsWordsLongerThan(PromptWordsOut, 3)
        /\ SearchedOut = <<arg>> \o PromptWordsOut
        /\ MergedOncePerTask

\* C26, with the searches the code makes: one for each word of the prompt
\* of more than 5 characters.
C26_OneSearchPerWordLongerThanFive ==
    Found =>
        /\ IsWordsLongerThan(PromptWordsOut, 3)
        /\ IsWordsLongerThan(Tail(SearchedOut), 5)
        /\ Head(SearchedOut) = arg
        /\ MergedOncePerTask

\* A prompt of two long words: the prompt has found two tasks, each word two
\* tasks, and the merged results hold the three tasks once each.
C26_LongWordsWitness ==
    /\ Found
    /\ Len(SearchedOut) = 3
    /\ GetProp(out, K_fuzzyMatches) = Num(2)
    /\ GetProp(out, K_wordMatches) = Num(4)
    /\ Len(MergedOut) = 3

-----------------------------------------------------------------------------
(* Vocabulary of the properties of the validation of names.                *)

QueryValidated == ops = <<"validateQueryParameters">>
NamesValidated == ops = <<"validateCustomFieldNames">>
FieldsValidated == ops = <<"validateCustomFields">>
NameValidated == ops = <<"validateFieldName">>

\* The names given, and the custom fields the tasks have.
NamesGiven == Keys(params.v[1])
AvailableGiven == {params.v[2].v[i].v : i \in DOMAIN params.v[2].v}

\* The keys the translation of the parameters classified as custom.
CustomKeys == Keys(GetProp(translateQueryParameters(params.v[1]), K_customFields))

\* name fails the reserved or the format check.
FailsNaming(name) == name \in ReservedNames \/ ~WellFormed(name)

\* message holds name between quotes.
Quotes(message, name) ==
    \E i \in DOMAIN message :
        /\ i + Len(name) + 1 <= Len(message)
        /\ SubSeq(message, i, i + Len(name) + 1) = <<"'">> \o name \o <<"'">>

\* message ends with suffix.
EndsWith(message, suffix) ==
    /\ Len(suffix) <= Len(message)
    /\ SubSeq(message, Len(message) - Len(suffix) + 1, Len(message)) = suffix

ErrorsOut == GetProp(out, K_errors).v
WarningsOut == GetProp(out, K_warnings).v
SuggestionsOut == GetProp(out, K_suggestions).v

\* The error of a reserved name and the error of a malformed name.
IsReservedError(message) ==
    /\ StartsWith(message, <<"F", "i", "e", "l", "d", " ", "'">>)
    /\ EndsWith(message,
                <<"'", " ", "i", "s", " ", "r", "e", "s", "e", "r", "v",
                  "e", "d", " ", "a", "n", "d", " ", "c", "a", "n", "n",
                  "o", "t", " ", "b", "e", " ", "u", "s", "e", "d", " ",
                  "a", "s", " ", "a", " ", "c", "u", "s", "t", "o", "m",
                  " ", "f", "i", "e", "l", "d">>)
IsFormatError(message) ==
    StartsWith(message,
               <<"I", "n", "v", "a", "l", "i", "d", " ", "f", "i", "e",
                 "l", "d", " ", "n", "a", "m", "e", " ", "f", "o", "r",
                 "m", "a", "t", ":", " ", "'">>)

-----------------------------------------------------------------------------
\* C22: validateQueryParameters runs every key classified as custom (every
\* key of the customFields of the translation) through validateFieldName:
\* valid is false exactly when one of them fails the reserved or the format
\* check, with one error for each failing key, in their order; every such
\* key that is well named and not among the available custom fields gives
\* exactly one warning, in their order; there are at most as many
\* suggestions as warnings, each with a warning of its own; and no error,
\* warning or suggestion is about a key classified as core.
C22_CustomKeysValidated ==
    QueryValidated =>
        LET custom == CustomKeys
            failing == SelectSeq(custom, FailsNaming)
            unseen == SelectSeq(custom,
                                LAMBDA name : ~FailsNaming(name)
                                              /\ name \notin AvailableGiven)
            suggested == SelectSeq(unseen,
                                   LAMBDA name :
                                       Truthy(suggestFieldName(Str(name), params.v[2])))
            errors == ErrorsOut
            warnings == WarningsOut
            suggestions == SuggestionsOut
        IN  /\ GetProp(out, K_valid) = (IF failing = <<>> THEN True ELSE False)
            /\ Len(errors) = Len(failing)
            /\ \A i \in DOMAIN errors : Quotes(errors[i].v, failing[i])
            /\ Len(warnings) = Len(unseen)
            /\ \A i \in DOMAIN warnings : Quotes(warnings[i].v, unseen[i])
            /\ Len(suggestions) = Len(suggested)
            /\ Len(suggestions) <= Len(warnings)
            /\ \A i \in DOMAIN NamesGiven :
                   Includes(CORE_FIELDS, NamesGiven[i]) =>
                       /\ \A e \in DOMAIN errors : ~Quotes(errors[e].v, NamesGiven[i])
                       /\ \A w \in DOMAIN warnings : ~Quotes(warnings[w].v, NamesGiven[i])
                       /\ \A s \in DOMAIN suggestions :
                              ~Quotes(suggestions[s].v, NamesGiven[i])

\* C22 witness: a validation of parameters with a core key, a malformed
\* custom key and an unseen custom key, giving one error, one warning and
\* one suggestion.
C22_Witness ==
    /\ QueryValidated
    /\ \E i \in DOMAIN NamesGiven : Includes(CORE_FIELDS, NamesGiven[i])
    /\ Len(ErrorsOut) = 1
    /\ Len(WarningsOut) = 1
    /\ Len(SuggestionsOut) = 1
    /\ GetProp(out, K_valid) = False

-----------------------------------------------------------------------------
\* C28: validateQueryParameters never reports the error of a reserved name:
\* every error is the error of a malformed name, also when the parameters
\* have reserved names among their keys.
C28_NoReservedError ==
    QueryValidated =>
        \A i \in DOMAIN ErrorsOut :
            /\ ~IsReservedError(ErrorsOut[i].v)
            /\ IsFormatError(ErrorsOut[i].v)

\* C28 witness: a validation of parameters with a reserved name and a
\* malformed name among their keys, the only error being about the latter.
C28_Witness ==
    /\ QueryValidated
    /\ \E i \in DOMAIN NamesGiven : NamesGiven[i] \in ReservedNames
    /\ \E i \in DOMAIN NamesGiven : ~WellFormed(NamesGiven[i])
    /\ Len(ErrorsOut) = 1
    /\ IsFormatError(ErrorsOut[1].v)

-----------------------------------------------------------------------------
\* The values given are all strings, as the schema of custom fields wants.
ValuesAreStrings == \A i \in DOMAIN params.v[1].v : params.v[1].v[i][2].t = "str"

\* One of the names given to the entry point called is reserved or
\* malformed.
NamingErrorGiven ==
    IF NameValidated THEN FailsNaming(arg.v)
    ELSE \E i \in DOMAIN NamesGiven : FailsNaming(NamesGiven[i])

\* C23: a reserved or malformed name is never reported by throwing: each
\* of validateFieldName, validateQueryParameters, validateCustomFieldNames
\* and validateCustomFields, given such a name (and string values), returns
\* an object.
C23_NamingErrorsNeverThrown ==
    (ops # <<>> /\ NamingErrorGiven /\ ValuesAreStrings) =>
        out.t = "obj"

\* C23, for the three entry points that do not throw: validateFieldName
\* and validateCustomFieldNames, given a reserved or malformed name, return
\* an object whose flag (valid, isValid) is false, and validateQueryParameters
\* returns an object.
C23_OtherEntryPointsReturn ==
    (ops # <<>> /\ ~FieldsValidated /\ NamingErrorGiven) =>
        /\ out.t = "obj"
        /\ NameValidated => GetProp(out, K_valid) = False
        /\ NamesValidated => GetProp(out, K_isValid) = False

\* C23 witness of the latter: the names of an object with a reserved name
\* were validated and the result says so.
C23_OtherEntryPointsWitness ==
    /\ NamesValidated
    /\ \E i \in DOMAIN NamesGiven : NamesGiven[i] \in ReservedNames
    /\ GetProp(out, K_isValid) = False

-----------------------------------------------------------------------------
\* C24: validateFieldName and validateCustomFieldNames reject the same
\* names as reserved: a name of the object given is among the
\* reservedErrors of validateCustomFieldNames exactly when validateFieldName
\* gives the reason 'reserved' for it.
C24_SameNamesReserved ==
    NamesValidated =>
        \A i \in DOMAIN NamesGiven :
            Includes(GetProp(out, K_reservedErrors).v, Str(NamesGiven[i]))
                <=> GetProp(validateFieldName(Str(NamesGiven[i])), K_reason) = Reserved

\* C24, one direction: every name validateFieldName rejects as reserved is
\* among the reservedErrors of validateCustomFieldNames.
C24_ReservedNamesOfQueriesRejected ==
    NamesValidated =>
        \A i \in DOMAIN NamesGiven :
            GetProp(validateFieldName(Str(NamesGiven[i])), K_reason) = Reserved
                => Includes(GetProp(out, K_reservedErrors).v, Str(NamesGiven[i]))

\* C24 witness of the latter: a reserved name among the reservedErrors.
C24_ReservedNamesWitness ==
    /\ NamesValidated
    /\ \E i \in DOMAIN NamesGiven : NamesGiven[i] \in ReservedNames
    /\ GetProp(out, K_reservedErrors).v # <<>>

-----------------------------------------------------------------------------
\* The parameters of the query are among file, projectRoot, tag,
\* withSubtasks and complexityReport.
QueryOnlyNames == {K_file, K_projectRoot, K_tag, K_withSubtasks, K_complexityReport}
OnlyQueryOnlyParams == \A i \in DOMAIN params.v : params.v[i][1] \in QueryOnlyNames

\* C30: queryTasks given only the parameters file, projectRoot, tag,
\* withSubtasks and complexityReport returns every task given, in their
\* order.
C30_QueryOnlyParametersKeepEveryTask ==
    (ops = <<"queryTasks">> /\ OnlyQueryOnlyParams) => out = Arr(tasks.v)

\* C30, for the parameters left undefined: queryTasks given only such
\* parameters, each undefined, returns every task given.
C30_UndefinedParametersKeepEveryTask ==
    (/\ ops = <<"queryTasks">>
     /\ OnlyQueryOnlyParams
     /\ \A i \in DOMAIN params.v : params.v[i][2] = Undefined)
        => out = Arr(tasks.v)

\* C30 witness of the latter: a query with the tag undefined returned the
\* two tasks given.
C30_UndefinedParametersWitness ==
    /\ ops = <<"queryTasks">>
    /\ params.v # <<>>
    /\ \A i \in DOMAIN params.v : params.v[i][2] = Undefined
    /\ Len(tasks.v) = 2
    /\ out = Arr(tasks.v)

-----------------------------------------------------------------------------
\* The subtasks whose parentTaskId is truthy and the id of no task.
OrphanSlots ==
    {slot \in SubtaskSlots :
        /\ Truthy(GetProp(SubtaskAt(slot), K_parentTaskId))
        /\ \A i \in DOMAIN tasks.v :
               GetProp(tasks.v[i], K_id) # GetProp(SubtaskAt(slot), K_parentTaskId)}

\* The issue of an incorrect parentTaskId for the subtask at slot.
IncorrectParentIssue(slot) ==
    Str(M_Task \o toString(GetProp(tasks.v[slot[1]], K_id))
        \o M_Subtask \o toString(GetProp(SubtaskAt(slot), K_id))
        \o M_IncorrectParentTaskId
        \o toString(GetProp(SubtaskAt(slot), K_parentTaskId)) \o <<")">>)

\* C27: in a report of createSubtaskIntegrityReport, the orphaned subtasks
\* are those of findOrphanedSubtasks, the subtasks whose parentTaskId is
\* truthy and the id of no task; each of them is among the subtasks counted
\* in subtasksWithIssues and has its 'has incorrect parentTaskId' issue
\* among the issues of validateSubtaskStructure(tasks, {fixIssues: false});
\* so the number of orphaned subtasks is at most subtasksWithIssues, and
\* isHealthy is the isValid of that validation.
C27_OrphansAreIssues ==
    Reported =>
        LET validation == validateSubtaskStructure(tasks, FALSE)
            issues == GetProp(validation, K_issues).v
            orphans == OrphanSlots
        IN  /\ GetProp(out, K_orphanedSubtasks) = findOrphanedSubtasks(tasks)
            /\ Len(GetProp(out, K_orphanedSubtasks).v) = Cardinality(orphans)
            /\ Summary(K_orphanedSubtasks) = Num(Cardinality(orphans))
            /\ orphans \subseteq SlotsWithIssues
            /\ Summary(K_subtasksWithIssues) = Num(Cardinality(SlotsWithIssues))
            /\ \A slot \in orphans : Includes(issues, IncorrectParentIssue(slot))
            /\ GetProp(out, K_issues).v = issues
            /\ Summary(K_orphanedSubtasks).v <= Summary(K_subtasksWithIssues).v
            /\ GetProp(out, K_isHealthy) = GetProp(validation, K_isValid)

\* C27 witness: a report on tasks with an orphaned subtask and a subtask
\* without parentTaskId: one orphan, two subtasks with issues, not healthy.
C27_Witness ==
    /\ Reported
    /\ Cardinality(OrphanSlots) = 1
    /\ Summary(K_orphanedSubtasks) = Num(1)
    /\ Summary(K_subtasksWithIssues) = Num(2)
    /\ \E slot \in OrphanSlots : Includes(GetProp(out, K_issues).v, IncorrectParentIssue(slot))
    /\ GetProp(out, K_isHealthy) = False

\* C27 witness of a healthy report: subtasks, none orphaned, no issue.
C27_HealthyWitness ==
    /\ Reported
    /\ SubtaskSlots # {}
    /\ OrphanSlots = {}
    /\ GetProp(out, K_isHealthy) = True
    /\ GetProp(validateSubtaskStructure(tasks, FALSE), K_isValid) = True

-----------------------------------------------------------------------------
(* Vocabulary of the properties of the transforms on a heap.               *)

Transformed == ops # <<>>
HeapBefore == tasks.heap
HeapAfter == out.heap

\* The value the transform called returns for the value of its argument.
ReturnedValue ==
    CASE ops[1] = "ensureSubtaskParentIds" ->
            ensureSubtaskParentIds(Materialize(HeapBefore, arg))
      [] ops[1] = "ensureCustomFieldsOnTasks" ->
            ensureCustomFieldsOnTasks(Materialize(HeapBefore, arg))
      [] ops[1] = "ensureTagDataBackwardCompatibility" ->
            ensureTagDataBackwardCompatibility(Materialize(HeapBefore, arg))
      [] ops[1] = "ensureDataBackwardCompatibility" ->
            ensureDataBackwardCompatibility(Materialize(HeapBefore, arg), False,
                                            IsoTimes[1], IsoTimes[1])
      [] ops[1] = "ensureDataBackwardCompatibility/isLegacyFormat:true" ->
            ensureDataBackwardCompatibility(Materialize(HeapBefore, arg), True,
                                            IsoTimes[1], IsoTimes[1])
      [] ops[1] = "filterTasks" ->
            filterTasks(Materialize(HeapBefore, TasksRef), arg)

-----------------------------------------------------------------------------
\* C25: no transform mutates its input: after ensureSubtaskParentIds,
\* ensureCustomFieldsOnTasks, ensureTagDataBackwardCompatibility,
\* ensureDataBackwardCompatibility or filterTasks has returned, every
\* object and array that was in memory before the call (the data, the task
\* array, every task, every array of subtasks, every subtask, every
\* customFields) has the properties and values it had; the corrections are
\* in the value returned, which is made of new objects and of references
\* to the old ones.
C25_InputsNotMutated ==
    Transformed =>
        LET before == HeapBefore
            after == HeapAfter
        IN  /\ Len(after) >= Len(before)
            /\ \A a \in DOMAIN before : after[a] = before[a]
            /\ Materialize(after, DataRef) = Materialize(before, DataRef)
            /\ Materialize(after, out.val) = ReturnedValue

\* C25 witness: ensureSubtaskParentIds returned tasks with a corrected
\* subtask, in new objects, and the subtask given has no parentTaskId
\* still.
C25_Witness ==
    /\ ops = <<"ensureSubtaskParentIds">>
    /\ out.val # arg
    /\ Materialize(HeapAfter, out.val) # Materialize(HeapBefore, arg)
    /\ \E i \in DOMAIN HeapBefore[arg.v].v :
           LET subtasks == HeapGet(HeapAfter, HeapBefore[arg.v].v[i], K_subtasks)
           IN  /\ IsArrayRef(HeapAfter, subtasks)
               /\ \E j \in DOMAIN HeapAfter[subtasks.v].v :
                      HeapGet(HeapAfter, HeapAfter[subtasks.v].v[j], K_parentTaskId)
                          = Undefined

\* C25 witness of a filter: filterTasks returned a new array without one of
\* the two tasks given, and the array given holds the two.
C25_FilterWitness ==
    /\ ops = <<"filterTasks">>
    /\ out.val # TasksRef
    /\ Len(HeapAfter[out.val.v].v) = 1
    /\ Len(HeapAfter[TasksRef.v].v) = 2

\* C25 witness of the data: ensureDataBackwardCompatibility returned new
\* data whose tasks have customFields, and a task given has none still.
C25_DataWitness ==
    /\ ops = <<"ensureDataBackwardCompatibility">>
    /\ out.val # DataRef
    /\ Materialize(HeapAfter, out.val) # Materialize(HeapBefore, DataRef)
    /\ \E i \in DOMAIN HeapAfter[TasksRef.v].v :
           HeapGet(HeapAfter, HeapAfter[TasksRef.v].v[i], K_customFields) = Undefined

=============================================================================
